---------------------------- MODULE Spec2Model ----------------------------
(***************************************************************************)
(* A model of rqlite, a read-only reader of SQLite 3 database files:       *)
(* the varint codec (util.rs), the record and cell decoders (record.rs,    *)
(* table.rs, index.rs), the pager (pager.rs), the range predicates         *)
(* (btree/range.rs, index.rs) and the B-tree cursor (btree/mod.rs).        *)
(***************************************************************************)
EXTENDS Integers, Sequences, FiniteSets, TLC

VARIABLES
    file,    \* the database file: page number -> page (the pages of the B-tree)
    root,    \* BTree.page_num, the root page of the B-tree
    kind,    \* "table" (TableBTree) or "index" (IndexBTree)
    rows,    \* the entries the B-tree was laid out from, in key order
    pos,     \* the position of Pager.file, in units of page_size
    cur,     \* the BTreeIter cursors, by cursor number
    out,     \* the cells each cursor has returned so far, by cursor number
    calls,   \* how many next() calls returned None, by cursor number
    pc,      \* "idle" or "next": whether cursor 1 is inside a next() call
    got,     \* the result of the last get, dump or scan ("none" before any)
    data,    \* the input of read_varint
    res      \* the result of read_varint ("none" before the call)

vars == <<file, root, kind, rows, pos, cur, out, calls, pc, got, data, res>>

(***************************************************************************)
(* 64-bit unsigned integers.  A u64 is four 16-bit limbs, most significant *)
(* first, so that shifts wrap at 2^64 as they do in the code.              *)
(***************************************************************************)
Limb == 65536

\* The element of a set of one element.  Only({F(v) : v \in {e}}) is F(e),
\* with e evaluated once before F is.
Only(S) == CHOOSE x \in S : TRUE

U64(n) == <<0, 0, n \div Limb, n % Limb>>

Zero64 == U64(0)

\* The four limbs of v * m, given the sums t4, t3 and t2 of the three lower
\* limbs with their carries.
ShlLimbs(v, m, t4, t3, t2) ==
    <<(v[1] * m + (t2 \div Limb)) % Limb, t2 % Limb, t3 % Limb, t4 % Limb>>

\* (v << s) | x for 0 <= x < 2^s, truncated to 64 bits.
ShlOr(v, s, x) ==
    LET m == 2 ^ s
        T4 == v[4] * m + x
        T3(t4) == v[3] * m + (t4 \div Limb)
        T2(t3) == v[2] * m + (t3 \div Limb)
        K2(t4, t3) == ShlLimbs(v, m, t4, t3, T2(t3))
        K3(t4) == K2(t4, T3(t4))
    IN  K3(T4)

\* Ord for u64: "Less", "Equal" or "Greater".
RECURSIVE CmpSeq(_, _, _)
CmpSeq(a, b, i) ==
    IF i > Len(a) /\ i > Len(b) THEN "Equal"
    ELSE IF i > Len(a) THEN "Less"
    ELSE IF i > Len(b) THEN "Greater"
    ELSE IF a[i] < b[i] THEN "Less"
    ELSE IF a[i] > b[i] THEN "Greater"
    ELSE CmpSeq(a, b, i + 1)

CmpU64(a, b) == CmpSeq(a, b, 1)

(***************************************************************************)
(* util.rs: read_varint.  The reader is a byte sequence and a position     *)
(* (the std::io::Cursor of the callers); the result carries the position   *)
(* after the call.                                                         *)
(***************************************************************************)
\* A read_exact that takes the end of the input for a byte of 0.
VarintEof(p) == [ok |-> TRUE, value |-> Zero64, pos |-> p, err |-> <<>>]

\* read_exact failed: chain_err(|| ErrorKind::InvalidVarint)?.
VarintErr(p) == [ok |-> FALSE, value |-> Zero64, pos |-> p, err |-> <<"InvalidVarint">>]

VarintOk(value, p) == [ok |-> TRUE, value |-> value, pos |-> p, err |-> <<>>]

\* The for loop over the first 8 bytes.
RECURSIVE VarintLoop(_, _, _, _)
VarintLoop(bytes, p, i, value) ==
    IF i = 8 THEN [ok |-> TRUE, seen_last_byte |-> FALSE, value |-> value, pos |-> p]
    ELSE IF p >= Len(bytes)
         THEN [ok |-> FALSE, seen_last_byte |-> FALSE, value |-> value, pos |-> p]
    ELSE LET Byte(b, v) ==
                 IF b \div 128 = 0
                 THEN [ok |-> TRUE, seen_last_byte |-> TRUE, value |-> v, pos |-> p + 1]
                 ELSE VarintLoop(bytes, p + 1, i + 1, v)
         IN  Only({Byte(bytes[p + 1], v) : v \in {ShlOr(value, 7, bytes[p + 1] % 128)}})

\* A ninth byte read as the first eight are: 7 bits of it.
VarintNinthAsOthers(bytes, l) ==
    IF l.pos >= Len(bytes) THEN VarintErr(l.pos)
    ELSE VarintOk(ShlOr(l.value, 7, bytes[l.pos + 1] % 128), l.pos + 1)

\* The special ninth byte: all of its 8 bits are used.
VarintNinth(bytes, l) ==
    IF l.pos >= Len(bytes) THEN VarintErr(l.pos)
    ELSE VarintOk(ShlOr(l.value, 8, bytes[l.pos + 1]), l.pos + 1)

read_varint(bytes, p) ==
    LET After(l) ==
            IF ~l.ok THEN VarintErr(l.pos)
            ELSE IF ~l.seen_last_byte THEN VarintNinth(bytes, l)
            ELSE VarintOk(l.value, l.pos)
    IN  Only({After(l) : l \in {VarintLoop(bytes, p, 0, Zero64)}})

(***************************************************************************)
(* Numbers read from the file are u64; sizes and offsets are usize.  A     *)
(* value of 2^31 or more is beyond every buffer of the model, so Sat keeps *)
(* it as a number larger than any length.                                  *)
(***************************************************************************)
Huge == 2147483647

Sat(v) == IF v[1] # 0 \/ v[2] # 0 \/ v[3] >= 32768 THEN Huge ELSE v[3] * Limb + v[4]

IsOdd(v) == v[4] % 2 = 1

\* bytes[from .. to), 0-based as Bytes::slice.
Slice(bytes, from, to) == SubSeq(bytes, from + 1, to)

\* BigEndian::read_uN and the shift-or chains of Field::from_bytes.
RECURSIVE BigEndian(_, _)
BigEndian(bytes, v) ==
    IF bytes = <<>> THEN v
    ELSE Only({BigEndian(Tail(bytes), w) : w \in {ShlOr(v, 8, Head(bytes))}})

(***************************************************************************)
(* record.rs: FieldType, Field, Record.                                    *)
(***************************************************************************)
FieldType(tag, len) == [tag |-> tag, len |-> len]

\* The match on the serial type n in Record::from_bytes; s is n as a number.
FieldTypeMatch(n, s) ==
    IF s = 0 THEN FieldType("Null", 0)
    ELSE IF s = 1 THEN FieldType("U8", 0)
    ELSE IF s = 2 THEN FieldType("U16", 0)
    ELSE IF s = 3 THEN FieldType("U24", 0)
    ELSE IF s = 4 THEN FieldType("U32", 0)
    ELSE IF s = 5 THEN FieldType("U48", 0)
    ELSE IF s = 6 THEN FieldType("U64", 0)
    ELSE IF s = 7 THEN FieldType("F64", 0)
    ELSE IF s = 8 THEN FieldType("Zero", 0)
    ELSE IF s = 9 THEN FieldType("One", 0)
    ELSE IF s = 10 \/ s = 11 THEN FieldType("reserved", 0)
    ELSE IF s > 12 /\ ~IsOdd(n) THEN FieldType("Blob", (s - 12) \div 2)
    ELSE IF s > 13 /\ IsOdd(n) THEN FieldType("Str", (s - 13) \div 2)
    ELSE FieldType("unreachable", 0)

FieldTypeOf(n) == FieldTypeMatch(n, Sat(n))

size_of(ty) ==
    CASE ty.tag = "Null" -> 0
      [] ty.tag = "U8"   -> 1
      [] ty.tag = "U16"  -> 2
      [] ty.tag = "U24"  -> 3
      [] ty.tag = "U32"  -> 4
      [] ty.tag = "U48"  -> 6
      [] ty.tag = "U64"  -> 8
      [] ty.tag = "F64"  -> 8
      [] ty.tag = "Zero" -> 0
      [] ty.tag = "One"  -> 0
      [] ty.tag = "Blob" -> ty.len
      [] ty.tag = "Str"  -> ty.len

\* A Field: its Type, and the integer or the bytes it holds.
MkField(t, i, b) == [ty |-> t, int |-> i, bytes |-> b]

IntegerField(n) == MkField("Integer", U64(n), <<>>)

Field_from_bytes(ty, bytes) ==
    CASE ty.tag = "Null" -> MkField("Null", Zero64, <<>>)
      [] ty.tag \in {"U8", "U16", "U24", "U32", "U48", "U64"} ->
            MkField("Integer", BigEndian(bytes, Zero64), <<>>)
      [] ty.tag = "F64"  -> MkField("Float", Zero64, bytes)
      [] ty.tag = "Zero" -> MkField("Integer", U64(0), <<>>)
      [] ty.tag = "One"  -> MkField("Integer", U64(1), <<>>)
      [] ty.tag = "Blob" -> MkField("Blob", Zero64, bytes)
      [] ty.tag = "Str"  -> MkField("Text", Zero64, bytes)

HeaderResult(st, p, types) == [st |-> st, pos |-> p, types |-> types]

\* The while loop of Record::from_bytes over the serial types of the header.
RECURSIVE RecordHeader(_, _, _, _)
RecordHeader(bytes, p, header_size, field_types) ==
    IF p >= header_size THEN HeaderResult("ok", p, field_types)
    ELSE LET Typed(v, ty) ==
                 IF ty.tag = "reserved" THEN HeaderResult("err", p, field_types)
                 ELSE IF ty.tag = "unreachable" THEN HeaderResult("panic", p, field_types)
                 ELSE RecordHeader(bytes, v.pos, header_size, Append(field_types, ty))
             Read(v) ==
                 IF ~v.ok THEN HeaderResult("err", p, field_types)
                 ELSE Only({Typed(v, ty) : ty \in {FieldTypeOf(v.value)}})
         IN  Only({Read(v) : v \in {read_varint(bytes, p)}})

\* The map over field_types: each field is the slice [offset, offset + size).
RECURSIVE RecordFields(_, _, _, _)
RecordFields(bytes, offset, types, fields) ==
    IF types = <<>> THEN [st |-> "ok", fields |-> fields]
    ELSE LET Sized(size) ==
                 IF size >= Huge \/ offset + size > Len(bytes)
                 THEN [st |-> "panic", fields |-> fields]
                 ELSE Only({RecordFields(bytes, offset + size, Tail(types),
                                         Append(fields, field)) :
                            field \in {Field_from_bytes(Head(types),
                                           Slice(bytes, offset, offset + size))}})
         IN  Only({Sized(size) : size \in {size_of(Head(types))}})

Record_from_bytes(bytes) ==
    LET Types(t) ==
            IF t.st # "ok" THEN [st |-> t.st, fields |-> <<>>]
            ELSE RecordFields(bytes, t.pos, t.types, <<>>)
        Header(h) ==
            IF ~h.ok THEN [st |-> "err", fields |-> <<>>]
            ELSE Only({Types(t) : t \in {RecordHeader(bytes, h.pos, Sat(h.value), <<>>)}})
    IN  Only({Header(h) : h \in {read_varint(bytes, 0)}})

\* Ord on &[u8] and on &str: lexicographic over the bytes.
CmpBytes(a, b) == CmpSeq(a, b, 1)

\* Field::ty.
Field_ty(field) == field.ty

\* Result<T>: Ok(value), or Err(err) with err the ErrorKind and its arguments.
Ok(value) == [ok |-> TRUE, value |-> value, err |-> <<>>]

Err(err) == [ok |-> FALSE, value |-> <<>>, err |-> err]

UnexpectedType(expected, actual) == Err(<<"UnexpectedType", expected, actual>>)

IsCont(b) == b \in 128..191

\* str::from_utf8: the number of bytes of the well-formed UTF-8 sequence at
\* the start of b, or 0 when there is none.
Utf8SeqLen(b) ==
    LET n == Len(b)
        Cont(i) == i <= n /\ IsCont(b[i])
    IN  IF b[1] < 128 THEN 1
        ELSE IF b[1] \in 194..223 THEN (IF Cont(2) THEN 2 ELSE 0)
        ELSE IF b[1] = 224 THEN (IF n >= 2 /\ b[2] \in 160..191 /\ Cont(3) THEN 3 ELSE 0)
        ELSE IF b[1] = 237 THEN (IF n >= 2 /\ b[2] \in 128..159 /\ Cont(3) THEN 3 ELSE 0)
        ELSE IF b[1] \in 225..239 THEN (IF Cont(2) /\ Cont(3) THEN 3 ELSE 0)
        ELSE IF b[1] = 240
             THEN (IF n >= 2 /\ b[2] \in 144..191 /\ Cont(3) /\ Cont(4) THEN 4 ELSE 0)
        ELSE IF b[1] \in 241..243 THEN (IF Cont(2) /\ Cont(3) /\ Cont(4) THEN 4 ELSE 0)
        ELSE IF b[1] = 244
             THEN (IF n >= 2 /\ b[2] \in 128..143 /\ Cont(3) /\ Cont(4) THEN 4 ELSE 0)
        ELSE 0

RECURSIVE from_utf8(_)
from_utf8(b) ==
    IF b = <<>> THEN Ok(<<>>)
    ELSE IF Utf8SeqLen(b) = 0 THEN Err(<<"Utf8">>)
    ELSE from_utf8(SubSeq(b, Utf8SeqLen(b) + 1, Len(b)))

\* The accessors of Field.  A Blob or a Text made by Field::from_bytes is
\* Lazy: its bytes are decoded when the accessor is called.
as_null(field) ==
    IF Field_ty(field) = "Null" THEN Ok(<<>>) ELSE UnexpectedType("Null", Field_ty(field))

as_integer(field) ==
    IF field.ty = "Integer" THEN Ok(field.int)
    ELSE UnexpectedType("Integer", Field_ty(field))

as_float(field) ==
    IF field.ty = "Float" THEN Ok(field.bytes) ELSE UnexpectedType("Float", Field_ty(field))

as_blob(field) ==
    IF field.ty = "Blob" THEN Ok(field.bytes) ELSE UnexpectedType("Blob", Field_ty(field))

as_text(field) ==
    IF field.ty = "Text"
    THEN (IF from_utf8(field.bytes).ok THEN Ok(field.bytes) ELSE Err(<<"Utf8">>))
    ELSE UnexpectedType("Text", Field_ty(field))

\* PartialOrd for Field: self.partial_cmp(other).  "panic" stands for the
\* expect() on a type mismatch or on a Text that is not UTF-8, and for the
\* unwrap() of as_text.  No file of the model holds a Float, and the order of
\* f64 is not modelled.
Field_partial_cmp(self, other) ==
    IF other.ty # self.ty THEN "panic"
    ELSE CASE self.ty = "Null"    -> "Equal"
           [] self.ty = "Integer" -> CmpU64(self.int, other.int)
           [] self.ty = "Blob"    -> CmpBytes(self.bytes, other.bytes)
           [] self.ty = "Text"    ->
                 IF as_text(self).ok /\ as_text(other).ok
                 THEN CmpBytes(self.bytes, other.bytes) ELSE "panic"
           [] OTHER               -> "panic"

Accessors == {"as_null", "as_integer", "as_float", "as_blob", "as_text"}

Accessor(acc, field) ==
    CASE acc = "as_null"    -> as_null(field)
      [] acc = "as_integer" -> as_integer(field)
      [] acc = "as_float"   -> as_float(field)
      [] acc = "as_blob"    -> as_blob(field)
      [] acc = "as_text"    -> as_text(field)

(***************************************************************************)
(* db.rs and pager.rs: the header of the database file.                    *)
(***************************************************************************)
\* A panic: the process ends and the caller gets no Result.
Abort == Err(<<"panic">>)

InvalidDbHeader(s) == Err(<<"InvalidDbHeader", s>>)

\* "SQLite format 3\0"
Magic == <<83, 81, 76, 105, 116, 101, 32, 102, 111, 114, 109, 97, 116, 32, 51, 0>>

\* a & b on unsigned integers.
RECURSIVE BitAnd(_, _)
BitAnd(a, b) ==
    IF a = 0 \/ b = 0 THEN 0
    ELSE (a % 2) * (b % 2) + 2 * BitAnd(a \div 2, b \div 2)

\* The match on the u16 at offset 16, without the power-of-two guard.
PageSizeAnyInRange(n) ==
    IF n = 1 THEN Ok(65536)
    ELSE IF n >= 512 /\ n <= 32768 THEN Ok(n)
    ELSE InvalidDbHeader("Invalid page size")

\* The match on the u16 at offset 16.
PageSizeMatch(n) ==
    IF n = 1 THEN Ok(65536)
    ELSE IF n >= 512 /\ n <= 32768 /\ BitAnd(n, n - 1) = 0 THEN Ok(n)
    ELSE InvalidDbHeader("Invalid page size")

\* DbHeader::parse.  Formatting the error of a short input slices
\* data[..16], BigEndian::read_u16 and read_u32 need 2 and 4 bytes, and
\* data[20] needs 21: each of them panics on a shorter input.
DbHeader_parse(bytes) ==
    LET Fields(page_size) ==
            IF ~page_size.ok THEN page_size
            ELSE IF Len(bytes) < 32 THEN Abort
            ELSE Ok(<<page_size.value, bytes[21],
                      Sat(BigEndian(Slice(bytes, 28, 32), Zero64))>>)
    IN  IF Len(bytes) < Len(Magic) \/ Slice(bytes, 0, Len(Magic)) # Magic
        THEN (IF Len(bytes) < Len(Magic) THEN Abort
              ELSE InvalidDbHeader("Invalid header string"))
        ELSE IF Len(bytes) < 18 THEN Abort
        ELSE Only({Fields(page_size) :
                    page_size \in {PageSizeMatch(bytes[17] * 256 + bytes[18])}})

\* The size of the buffer Pager::open reads the header into.
HeaderLen == 100

\* Pager::open on a file that holds bytes: read_exact fails on a file
\* shorter than the buffer.
Pager_open(bytes) ==
    IF Len(bytes) < HeaderLen THEN InvalidDbHeader("Error reading header")
    ELSE DbHeader_parse(Slice(bytes, 0, HeaderLen))

(***************************************************************************)
(* table.rs and index.rs: the four cell decoders.  A decoded cell is       *)
(* [key, left, record]; a decoder returns it with st = "ok", or fails with *)
(* st = "err" (an Err result) or "panic".                                  *)
(***************************************************************************)
NoCell == [st |-> "none", key |-> <<>>, left |-> 0, record |-> <<>>]

CellFail(how) == [st |-> how, key |-> <<>>, left |-> 0, record |-> <<>>]

MkCell(k, l, r) == [st |-> "ok", key |-> k, left |-> l, record |-> r]

TableLeafCell_from_bytes(bytes) ==
    LET Rec(row_id, record) ==
            IF record.st # "ok" THEN CellFail(record.st)
            ELSE MkCell(row_id.value, 0, record.fields)
        Row(row_id) ==
            IF ~row_id.ok THEN CellFail("err")
            ELSE Only({Rec(row_id, record) :
                       record \in {Record_from_bytes(Slice(bytes, row_id.pos, Len(bytes)))}})
        Payload(payload_length) ==
            IF ~payload_length.ok THEN CellFail("err")
            ELSE Only({Row(row_id) : row_id \in {read_varint(bytes, payload_length.pos)}})
    IN  Only({Payload(payload_length) : payload_length \in {read_varint(bytes, 0)}})

\* left is read from bytes [0, 4) and row_id from a cursor that starts at
\* byte 0 again.
TableInteriorCell_from_bytes(bytes) ==
    IF Len(bytes) < 4 THEN CellFail("panic")
    ELSE LET Row(left, row_id) ==
                 IF ~row_id.ok THEN CellFail("err") ELSE MkCell(row_id.value, left, <<>>)
         IN  Only({Row(left, row_id) :
                      left \in {Sat(BigEndian(Slice(bytes, 0, 4), Zero64))},
                      row_id \in {read_varint(bytes, 0)}})

\* The tail shared by the two index cells: varint len at p, then the record
\* in the slice [position, position + len).
IndexRecordAt(bytes, p, left) ==
    LET Rec(record) ==
            IF record.st # "ok" THEN CellFail(record.st)
            ELSE MkCell(record.fields, left, record.fields)
        Sliced(position, len) ==
            IF len >= Huge \/ position + len > Len(bytes) THEN CellFail("panic")
            ELSE Only({Rec(record) :
                       record \in {Record_from_bytes(Slice(bytes, position, position + len))}})
        Read(len) ==
            IF ~len.ok THEN CellFail("err") ELSE Sliced(len.pos, Sat(len.value))
    IN  Only({Read(len) : len \in {read_varint(bytes, p)}})

IndexLeafCell_from_bytes(bytes) == IndexRecordAt(bytes, 0, 0)

IndexInteriorCell_from_bytes(bytes) ==
    IF Len(bytes) < 4 THEN CellFail("panic")
    ELSE Only({IndexRecordAt(bytes, 4, left) :
                  left \in {Sat(BigEndian(Slice(bytes, 0, 4), Zero64))}})

(***************************************************************************)
(* btree/range.rs and index.rs: the range predicates.                      *)
(***************************************************************************)
RangeAll_compare(key) == "InRange"

\* A match for One that lets every key from its own on into the range.
RangeOne_matchFrom(c) ==
    CASE c = "Less"    -> "Less"
      [] c = "Equal"   -> "UpperBoundary"
      [] c = "Greater" -> "InRange"

\* The match on key.cmp(&self.0) of RangeOne.
RangeOne_match(c) ==
    CASE c = "Less"    -> "Less"
      [] c = "Equal"   -> "UpperBoundary"
      [] c = "Greater" -> "Greater"

RangeOne_compare(r, key) == Only({RangeOne_match(c) : c \in {CmpU64(key, r)}})

\* A match for a strict lower bound: the key of the range itself is Less.
RangeGtEq_matchStrict(c) ==
    CASE c \in {"Less", "Equal"} -> "Less"
      [] c = "Greater" -> "InRange"

\* The match on key.cmp(&self.0) of RangeGtEq.
RangeGtEq_match(c) ==
    CASE c = "Less" -> "Less"
      [] c \in {"Equal", "Greater"} -> "InRange"

RangeGtEq_compare(r, key) == Only({RangeGtEq_match(c) : c \in {CmpU64(key, r)}})

\* A loop that compares the field of the probe with the field of the key.
RECURSIVE IndexRangeZipProbeFirst(_, _, _)
IndexRangeZipProbeFirst(this, that, i) ==
    IF i > Len(this) \/ i > Len(that) THEN "InRange"
    ELSE LET Match(ord) ==
                 CASE ord = "Equal"   -> IndexRangeZipProbeFirst(this, that, i + 1)
                   [] ord = "Less"    -> "Less"
                   [] ord = "Greater" -> "Greater"
                   [] ord = "panic"   -> "panic"
         IN  Only({Match(ord) : ord \in {Field_partial_cmp(this[i], that[i])}})

\* The for loop of IndexRange::compare over self.0.iter().zip(other.iter()).
RECURSIVE IndexRangeZip(_, _, _)
IndexRangeZip(this, that, i) ==
    IF i > Len(this) \/ i > Len(that) THEN "InRange"
    ELSE LET Match(ord) ==
                 CASE ord = "Equal"   -> IndexRangeZip(this, that, i + 1)
                   [] ord = "Less"    -> "Less"
                   [] ord = "Greater" -> "Greater"
                   [] ord = "panic"   -> "panic"
         IN  Only({Match(ord) : ord \in {Field_partial_cmp(that[i], this[i])}})

IndexRange_compare(r, other) ==
    IF Len(r) > Len(other) THEN "panic" ELSE IndexRangeZip(r, other, 1)

\* R::compare for the range of a cursor, [tag, key].
Range_compare(range, key) ==
    CASE range.tag = "All"   -> RangeAll_compare(key)
      [] range.tag = "One"   -> RangeOne_compare(range.key, key)
      [] range.tag = "GtEq"  -> RangeGtEq_compare(range.key, key)
      [] range.tag = "Index" -> IndexRange_compare(range.key, key)

(***************************************************************************)
(* pager.rs and btree/page.rs.  A page is [ty, cells, right]: the type     *)
(* byte of its header, its cell bodies in cell-pointer order, and the      *)
(* right-most pointer of its header.  The file holds the pages of the      *)
(* B-tree; every other page of the file is zero-filled.                    *)
(***************************************************************************)
ZeroPage == [ty |-> 0, cells |-> <<>>, right |-> 0]

MaxOf(S) == CHOOSE x \in S : \A y \in S : y <= x

\* The length of the file, in pages.
FilePages(f) == MaxOf(DOMAIN f)

PageAt(f, n) == IF n \in DOMAIN f THEN f[n] ELSE ZeroPage

\* read_exact of page_size bytes at the position `at` of a file of `pages`
\* pages: the page, or an error at the end of the file.
ReadPage(f, at, pages) ==
    IF at >= pages
    THEN [ok |-> FALSE, page |-> ZeroPage, pos |-> at]
    ELSE [ok |-> TRUE, page |-> PageAt(f, at + 1), pos |-> at + 1]

\* A get_page that seeks from the file position, not from the start.
get_page_relative(f, p, number) ==
    IF number = 0 THEN [ok |-> FALSE, page |-> ZeroPage, pos |-> p]
    ELSE ReadPage(f, p + number - 1, FilePages(f))

\* Pager::get_page(number) with the file position at p: seek to
\* (number - 1) * page_size, then read_exact.
get_page(f, p, number) ==
    IF number = 0 THEN [ok |-> FALSE, page |-> ZeroPage, pos |-> p]
    ELSE ReadPage(f, number - 1, FilePages(f))

get_page_type(page) == IF (page.ty \div 8) % 2 = 1 THEN "Leaf" ELSE "Interior"

Page_len(page) == Len(page.cells)

\* Option<PageIter<C>>: Some(PageIter {page, idx}) or None.
NoIter == [some |-> FALSE, page |-> ZeroPage, idx |-> 0]

Page_iter(page) == [some |-> TRUE, page |-> page, idx |-> 0]

\* PageIter::next with C::from_bytes given by the B-tree kind and the level;
\* the unwrap() turns a decoding error into a panic.
Cell_from_bytes(k, level, bytes) ==
    CASE k = "table" /\ level = "Leaf"     -> TableLeafCell_from_bytes(bytes)
      [] k = "table" /\ level = "Interior" -> TableInteriorCell_from_bytes(bytes)
      [] k = "index" /\ level = "Leaf"     -> IndexLeafCell_from_bytes(bytes)
      [] k = "index" /\ level = "Interior" -> IndexInteriorCell_from_bytes(bytes)

PageIter_next(k, level, it) ==
    IF it.idx = Page_len(it.page) THEN [iter |-> it, cell |-> NoCell]
    ELSE LET Unwrap(v) ==
                 IF v.st # "ok" THEN [iter |-> it, cell |-> CellFail("panic")]
                 ELSE [iter |-> [it EXCEPT !.idx = it.idx + 1], cell |-> v]
         IN  Only({Unwrap(v) : v \in {Cell_from_bytes(k, level, it.page.cells[it.idx + 1])}})

PageIter_right(it) == it.page.right

(***************************************************************************)
(* btree/page.rs on the bytes of a page.  A Page is [data, header_offset,   *)
(* header_length]; a slice that the code could not take is NoSlice.         *)
(***************************************************************************)
PAGE_LEAF_HEADER_LEN == 8

PAGE_INTERIOR_HEADER_LEN == 12

\* Page::new.
RawPage(bytes, header_offset, header_length) ==
    [data |-> bytes, header_offset |-> header_offset, header_length |-> header_length]

\* Page::header.
RawPage_header(page) ==
    Slice(page.data, page.header_offset, page.header_offset + page.header_length)

\* BigEndian::read_u16 of a slice of 2 bytes or more.
read_u16(bytes) == bytes[1] * 256 + bytes[2]

\* Page::len.
RawPage_len(page) == read_u16(Slice(RawPage_header(page), 3, 5))

\* Page::cell_pointers.
RawPage_cell_pointers(page) ==
    Slice(page.data, page.header_offset + page.header_length,
          page.header_offset + page.header_length + RawPage_len(page) * 2)

NoSlice == [st |-> "panic", bytes |-> <<>>]

\* Bytes::slice_from.
slice_from(bytes, begin) ==
    IF begin > Len(bytes) THEN NoSlice
    ELSE [st |-> "ok", bytes |-> Slice(bytes, begin, Len(bytes))]

\* A cell() that reads its pointer from the page without looking at the
\* number of cells.
RawPage_cellUnchecked(page, index) ==
    LET at == page.header_offset + page.header_length + index * 2
    IN  IF at + 2 > Len(page.data) THEN NoSlice
        ELSE slice_from(page.data, read_u16(Slice(page.data, at, at + 2)))

\* Page::cell.  The guard lets index = len() through; the slice of the
\* cell pointers from index * 2 is then empty and read_u16 panics on it.
RawPage_cell(page, index) ==
    IF index > RawPage_len(page) THEN NoSlice
    ELSE LET Pointed(cell_pointer) ==
                 IF Len(cell_pointer) < 2 THEN NoSlice
                 ELSE slice_from(page.data, read_u16(cell_pointer))
         IN  Only({Pointed(cell_pointer) :
                      cell_pointer \in {Slice(RawPage_cell_pointers(page), index * 2,
                                              RawPage_len(page) * 2)}})

\* PageIter::next on the bytes of a page: None, or the index it asks
\* cell() for and the cell decoded from the slice.
RawPageIter_next(k, page, idx) ==
    IF idx = RawPage_len(page) THEN [some |-> FALSE, index |-> idx, cell |-> NoCell, idx |-> idx]
    ELSE LET Unwrap(v) ==
                 IF v.st # "ok"
                 THEN [some |-> TRUE, index |-> idx, cell |-> CellFail("panic"), idx |-> idx]
                 ELSE [some |-> TRUE, index |-> idx, cell |-> v, idx |-> idx + 1]
             Sliced(bytes) ==
                 IF bytes.st # "ok"
                 THEN [some |-> TRUE, index |-> idx, cell |-> CellFail("panic"), idx |-> idx]
                 ELSE Only({Unwrap(v) : v \in {Cell_from_bytes(k,
                          get_page_type([ty |-> page.data[page.header_offset + 1]]),
                          bytes.bytes)}})
         IN  Only({Sliced(bytes) : bytes \in {RawPage_cell(page, idx)}})

(***************************************************************************)
(* btree/mod.rs: BTreeIter.  A cursor is [interiors, leaf, last_comparison,*)
(* range, st]; st = "panic" once an unwrap(), an expect() or a panic!() of *)
(* the traversal has fired.  The operators work on a machine m = [c, pos]: *)
(* the cursor and the position of the file of the Pager it shares.         *)
(***************************************************************************)
MkRange(t, key) == [tag |-> t, key |-> key]

Panicked(m) == [m EXCEPT !.c.st = "panic"]

\* One turn of the loop of next() ends in: "continue" (loop again),
\* "some" (return Some(cell)), "none" (return None) or "panic".
Turn(m, ret, cell) == [m |-> m, ret |-> ret, cell |-> cell]

\* A turn that ends with a descent: the unwrap() of descend may have fired.
Descended(m) == Turn(m, IF m.c.st = "panic" THEN "panic" ELSE "continue", NoCell)

descend(f, k, m, page_num) ==
    LET Got(g) ==
            IF ~g.ok THEN Panicked([m EXCEPT !.pos = g.pos])
            ELSE IF get_page_type(g.page) = "Interior"
            THEN [c |-> [m.c EXCEPT !.interiors = Append(@, Page_iter(g.page))],
                  pos |-> g.pos]
            ELSE [c |-> [m.c EXCEPT !.leaf = Page_iter(g.page)], pos |-> g.pos]
    IN  Only({Got(g) : g \in {get_page(f, m.pos, page_num)}})

\* BTreeIter::compare: remember the comparison.
compare(m, cmp) == [m EXCEPT !.c.last_comparison = cmp]

\* BTree::iter_range: the fresh cursor, descended into the root.
iter_range(f, k, page_num, range, p) ==
    descend(f, k,
        [c |-> [interiors |-> <<>>, leaf |-> NoIter, last_comparison |-> "InRange",
                range |-> range, st |-> "ok"],
         pos |-> p],
        page_num)

\* A match that puts the leaf back as it was before leaf.next() when the cell
\* is beyond the range.
LeafMatchAgain(m, n, cmp) ==
    CASE cmp = "panic"   -> Turn(Panicked(m), "panic", NoCell)
      [] cmp = "Less"    -> Turn([m EXCEPT !.c.leaf = n.iter], "continue", NoCell)
      [] cmp = "InRange" -> Turn([m EXCEPT !.c.leaf = n.iter], "some", n.cell)
      [] OTHER           ->
            Turn([m EXCEPT !.c.leaf = [n.iter EXCEPT !.idx = @ - 1]], "continue", NoCell)

\* The match on the comparison of a leaf cell: m is the cursor after
\* compare(), n the leaf scan after leaf.next() and the cell it returned.
LeafMatch(m, n, cmp) ==
    CASE cmp = "panic"   -> Turn(Panicked(m), "panic", NoCell)
      [] cmp = "Less"    -> Turn([m EXCEPT !.c.leaf = n.iter], "continue", NoCell)
      [] cmp = "InRange" -> Turn([m EXCEPT !.c.leaf = n.iter], "some", n.cell)
      [] OTHER           -> Turn(m, "continue", NoCell)

\* The arm "Some(mut leaf)" of next(): m has self.leaf already replaced by
\* None, and leaf is the scan that was taken out of it.
LeafStep(k, m, leaf) ==
    LET Compared(n, cmp) == LeafMatch(compare(m, cmp), n, cmp)
        Read(n) ==
            IF n.cell.st = "panic" THEN Turn(Panicked(m), "panic", NoCell)
            ELSE IF n.cell.st = "none" THEN Turn(m, "continue", NoCell)
            ELSE Only({Compared(n, cmp) : cmp \in {Range_compare(m.c.range, n.cell.key)}})
    IN  Only({Read(n) : n \in {PageIter_next(k, "Leaf", leaf)}})

\* A cursor that never follows the right-most pointer.
RightPointerSkipped(f, k, m, interior) == m

\* A cursor that descends into the right child without the sentinel.
RightPointerBare(f, k, m, interior) ==
    IF m.c.last_comparison \in {"UpperBoundary", "Greater"} THEN m
    ELSE descend(f, k, m, PageIter_right(interior))

\* A cursor that follows the right-most pointer whatever the last
\* comparison was.
RightPointerAlways(f, k, m, interior) ==
    descend(f, k, [m EXCEPT !.c.interiors = Append(@, NoIter)], PageIter_right(interior))

\* The arm "None" of interior.next(): there are no more left-pointers on
\* this page.  m has the exhausted interior popped.
RightPointer(f, k, m, interior) ==
    IF m.c.last_comparison \in {"UpperBoundary", "Greater"} THEN m
    ELSE descend(f, k, [m EXCEPT !.c.interiors = Append(@, NoIter)],
                 PageIter_right(interior))

\* The match on the comparison of an interior cell: m is the cursor with the
\* interior pushed back, after compare().
InteriorMatch(f, k, m, cell, cmp) ==
    CASE cmp = "panic"   -> Turn(Panicked(m), "panic", NoCell)
      [] cmp = "Greater" -> Turn(m, "continue", NoCell)
      [] OTHER           -> Only({Descended(d) : d \in {descend(f, k, m, cell.left)}})

\* The arm "Some(Some(mut interior))" of interiors.pop(): m has the
\* interior popped.
InteriorStep(f, k, m, interior) ==
    LET Compared(n, cmp) ==
            InteriorMatch(f, k,
                compare([m EXCEPT !.c.interiors = Append(@, n.iter)], cmp), n.cell, cmp)
        Read(n) ==
            IF n.cell.st = "panic" THEN Turn(Panicked(m), "panic", NoCell)
            ELSE IF n.cell.st = "none"
            THEN Only({Descended(d) : d \in {RightPointer(f, k, m, interior)}})
            ELSE Only({Compared(n, cmp) : cmp \in {Range_compare(m.c.range, n.cell.key)}})
    IN  Only({Read(n) : n \in {PageIter_next(k, "Interior", interior)}})

\* One turn of the loop of BTreeIter::next.
LoopTurn(f, k, m) ==
    IF m.c.leaf.some
    THEN LeafStep(k, [m EXCEPT !.c.leaf = NoIter], m.c.leaf)
    ELSE IF m.c.interiors = <<>> THEN Turn(m, "none", NoCell)
    ELSE LET Popped(top, popped) ==
                 IF top.some THEN InteriorStep(f, k, popped, top)
                 ELSE Turn(popped, "continue", NoCell)
         IN  Popped(m.c.interiors[Len(m.c.interiors)],
                    [m EXCEPT !.c.interiors = SubSeq(@, 1, Len(@) - 1)])

\* BTreeIter::next: loop until a return.
RECURSIVE BTreeIter_next(_, _, _)
BTreeIter_next(f, k, m) ==
    LET Again(t) == IF t.ret = "continue" THEN BTreeIter_next(f, k, t.m) ELSE t
    IN  Only({Again(t) : t \in {LoopTurn(f, k, m)}})

CollectResult(st, cells, p) == [st |-> st, cells |-> cells, pos |-> p]

\* Iterator::collect over a cursor: next() until None.
RECURSIVE collect(_, _, _, _)
collect(f, k, m, acc) ==
    LET Item(t) ==
            CASE t.ret = "some"  -> collect(f, k, t.m, Append(acc, t.cell))
              [] t.ret = "none"  -> CollectResult("ok", acc, t.m.pos)
              [] t.ret = "panic" -> CollectResult("panic", acc, t.m.pos)
    IN  Only({Item(t) : t \in {BTreeIter_next(f, k, m)}})

\* iter_range(range).collect(): the unwrap() of the first descend may fire.
collect_range(f, k, page_num, range, p) ==
    LET Created(m) ==
            IF m.c.st = "panic" THEN CollectResult("panic", <<>>, m.pos)
            ELSE collect(f, k, m, <<>>)
    IN  Only({Created(m) : m \in {iter_range(f, k, page_num, range, p)}})

\* BTree::get: at most one cell of the One(key) traversal, or a failed assert.
get(f, page_num, key, p) ==
    LET Popped(iter) ==
            IF iter.st = "panic" \/ Len(iter.cells) > 1
            THEN [st |-> "panic", cells |-> <<>>, pos |-> iter.pos]
            ELSE [st |-> "ok", pos |-> iter.pos,
                  cells |-> IF iter.cells = <<>> THEN <<>>
                            ELSE <<iter.cells[Len(iter.cells)]>>]
    IN  Only({Popped(iter) :
                 iter \in {collect_range(f, "table", page_num, MkRange("One", key), p)}})

(***************************************************************************)
(* table.rs and schema.rs: TableSchema, Table, Schema.  A text is the      *)
(* sequence of its bytes.  The SQL parser is nom_sql; the model holds the  *)
(* statements of its files and what parse_query returns for each of them.  *)
(***************************************************************************)
ColumnSpec(name, sql_type, primary_key) ==
    [name |-> name, sql_type |-> sql_type, primary_key |-> primary_key]

Statement(stmt, fields) == [stmt |-> stmt, fields |-> fields]

SqlText(text, parsed) == [text |-> text, parsed |-> parsed]

\* "CREATE TABLE t1(a INT)"
SqlT1 ==
    <<67, 82, 69, 65, 84, 69, 32, 84, 65, 66, 76, 69, 32, 116, 49, 40, 97, 32, 73, 78, 84, 41>>

\* "CREATE TABLE t2(b TEXT)"
SqlT2 ==
    <<67, 82, 69, 65, 84, 69, 32, 84, 65, 66, 76, 69, 32, 116, 50, 40, 98, 32, 84, 69, 88, 84, 41>>

\* "CREATE TABLE t3(c BLOB)"
SqlT3 ==
    <<67, 82, 69, 65, 84, 69, 32, 84, 65, 66, 76, 69, 32, 116, 51, 40, 99, 32, 66, 76, 79, 66, 41>>

\* "CREATE VIRTUAL TABLE t4 USING f"
SqlT4 ==
    <<67, 82, 69, 65, 84, 69, 32, 86, 73, 82, 84, 85, 65, 76, 32, 84, 65, 66, 76, 69, 32, 116, 52, 32, 85, 83, 73, 78, 71, 32, 102>>

\* "CREATE TABLE p(a INTEGER PRIMARY KEY, b INT)"
SqlP ==
    <<67, 82, 69, 65, 84, 69, 32, 84, 65, 66, 76, 69, 32, 112, 40, 97, 32, 73, 78, 84, 69, 71, 69, 82, 32, 80, 82, 73, 77, 65, 82, 89, 32, 75, 69, 89, 44, 32, 98, 32, 73, 78, 84, 41>>

\* "CREATE TABLE q(b INT, a INTEGER PRIMARY KEY)"
SqlQ ==
    <<67, 82, 69, 65, 84, 69, 32, 84, 65, 66, 76, 69, 32, 113, 40, 98, 32, 73, 78, 84, 44, 32, 97, 32, 73, 78, 84, 69, 71, 69, 82, 32, 80, 82, 73, 77, 65, 82, 89, 32, 75, 69, 89, 41>>

\* "CREATE TABLE r(a INT, b INT)"
SqlR ==
    <<67, 82, 69, 65, 84, 69, 32, 84, 65, 66, 76, 69, 32, 114, 40, 97, 32, 73, 78, 84, 44, 32, 98, 32, 73, 78, 84, 41>>

\* "CREATE TABLE s(a TEXT PRIMARY KEY, b INT)"
SqlS ==
    <<67, 82, 69, 65, 84, 69, 32, 84, 65, 66, 76, 69, 32, 115, 40, 97, 32, 84, 69, 88, 84, 32, 80, 82, 73, 77, 65, 82, 89, 32, 75, 69, 89, 44, 32, 98, 32, 73, 78, 84, 41>>

\* "CREATE TABLE u(a INTEGER PRIMARY KEY, b INTEGER PRIMARY KEY)"
SqlU ==
    <<67, 82, 69, 65, 84, 69, 32, 84, 65, 66, 76, 69, 32, 117, 40, 97, 32, 73, 78, 84, 69, 71, 69, 82, 32, 80, 82, 73, 77, 65, 82, 89, 32, 75, 69, 89, 44, 32, 98, 32, 73, 78, 84, 69, 71, 69, 82, 32, 80, 82, 73, 77, 65, 82, 89, 32, 75, 69, 89, 41>>

SqlTexts ==
    {SqlText(SqlT1,
        Statement("CreateTable", <<ColumnSpec("a", "Int", FALSE)>>)),
     SqlText(SqlT2,
        Statement("CreateTable", <<ColumnSpec("b", "Text", FALSE)>>)),
     SqlText(SqlT3,
        Statement("CreateTable", <<ColumnSpec("c", "Blob", FALSE)>>)),
     SqlText(SqlT4,
        Statement("Failed", <<>>)),
     SqlText(SqlP,
        Statement("CreateTable", <<ColumnSpec("a", "Int", TRUE), ColumnSpec("b", "Int", FALSE)>>)),
     SqlText(SqlQ,
        Statement("CreateTable", <<ColumnSpec("b", "Int", FALSE), ColumnSpec("a", "Int", TRUE)>>)),
     SqlText(SqlR,
        Statement("CreateTable", <<ColumnSpec("a", "Int", FALSE), ColumnSpec("b", "Int", FALSE)>>)),
     SqlText(SqlS,
        Statement("CreateTable", <<ColumnSpec("a", "Text", TRUE), ColumnSpec("b", "Int", FALSE)>>)),
     SqlText(SqlU,
        Statement("CreateTable", <<ColumnSpec("a", "Int", TRUE), ColumnSpec("b", "Int", TRUE)>>))}

\* nom_sql::parser::parse_query: a text that is no statement fails to parse.
parse_query(sql) ==
    IF \E t \in SqlTexts : t.text = sql
    THEN (CHOOSE t \in SqlTexts : t.text = sql).parsed
    ELSE Statement("Failed", <<>>)

Msg(s) == Err(<<"Msg", s>>)

Column(name, ty, primary_key) == [name |-> name, ty |-> ty, primary_key |-> primary_key]

TableSchema_from_sql(sql) ==
    LET Col(col) == Column(col.name, IF col.sql_type = "Int" THEN "Integer" ELSE "Text",
                           col.primary_key)
        Parsed(parsed) ==
            IF parsed.stmt = "Failed" THEN Msg("Failed to parse schema")
            ELSE IF parsed.stmt # "CreateTable" THEN Msg("Expected CREATE TABLE")
            ELSE IF \E i \in 1..Len(parsed.fields) :
                        parsed.fields[i].sql_type \notin {"Int", "Text"}
            THEN Msg("Unexpected column type")
            ELSE Ok([i \in 1..Len(parsed.fields) |-> Col(parsed.fields[i])])
    IN  Only({Parsed(parsed) : parsed \in {parse_query(sql)}})

IsPrimaryKey(c) == c.primary_key

\* ColumnReference::RowId, ColumnReference::Index(idx), or no column.
ColumnReference(tag, idx) == [tag |-> tag, idx |-> idx]

\* A column_indices that never takes the primary key from the row-id.
column_indices_by_position(columns, names) ==
    LET Ref(name) ==
            IF \E i \in 1..Len(columns) : columns[i].name = name
            THEN ColumnReference("Index",
                     (CHOOSE i \in 1..Len(columns) :
                         /\ columns[i].name = name
                         /\ \A j \in 1..(i - 1) : columns[j].name # name) - 1)
            ELSE ColumnReference("Unknown", 0)
    IN  IF \E i \in 1..Len(names) : Ref(names[i]).tag = "Unknown"
        THEN Msg("Unknown column")
        ELSE Ok([i \in 1..Len(names) |-> Ref(names[i])])

\* TableSchema::column_indices.
column_indices(columns, names) ==
    LET pks == SelectSeq(columns, IsPrimaryKey)
        pk_is_rowid == Len(pks) = 1 /\ pks[1].ty = "Integer"
        Ref(name) ==
            IF pk_is_rowid /\ pks[1].name = name THEN ColumnReference("RowId", 0)
            ELSE IF \E i \in 1..Len(columns) : columns[i].name = name
            THEN ColumnReference("Index",
                     (CHOOSE i \in 1..Len(columns) :
                         /\ columns[i].name = name
                         /\ \A j \in 1..(i - 1) : columns[j].name # name) - 1)
            ELSE ColumnReference("Unknown", 0)
    IN  IF \E i \in 1..Len(names) : Ref(names[i]).tag = "Unknown"
        THEN Msg("Unknown column")
        ELSE Ok([i \in 1..Len(names) |-> Ref(names[i])])

\* Table {page_num, name, schema}.
MkTable(page_num, name, schema) == [page_num |-> page_num, name |-> name, schema |-> schema]

Table_new(page_num, name, sql) ==
    LET Made(schema) == IF ~schema.ok THEN schema
                        ELSE Ok(MkTable(page_num, name, schema.value))
    IN  Only({Made(schema) : schema \in {TableSchema_from_sql(sql)}})

SelectResult(st, selected, p, err) ==
    [st |-> st, rows |-> selected, pos |-> p, err |-> err]

\* Table::select: a row is a map from the names of the columns to fields;
\* record[idx] panics when the record has no field idx.
Table_select(f, p, table, columns) ==
    LET Value(row, colref) ==
            IF colref.tag = "RowId" THEN MkField("Integer", row.key, <<>>)
            ELSE row.record[colref.idx + 1]
        Short(row, colrefs) ==
            \E i \in 1..Len(colrefs) :
                colrefs[i].tag = "Index" /\ colrefs[i].idx >= Len(row.record)
        Row(row, colrefs) ==
            [name \in {columns[i] : i \in 1..Len(columns)} |->
                Value(row, colrefs[CHOOSE i \in 1..Len(columns) : columns[i] = name])]
        Mapped(r, colrefs) ==
            IF r.st = "panic" \/ \E i \in 1..Len(r.cells) : Short(r.cells[i], colrefs)
            THEN SelectResult("panic", <<>>, r.pos, <<"panic">>)
            ELSE SelectResult("ok", [i \in 1..Len(r.cells) |-> Row(r.cells[i], colrefs)],
                              r.pos, <<>>)
        Resolved(colrefs) ==
            IF ~colrefs.ok THEN SelectResult("err", <<>>, p, colrefs.err)
            ELSE Only({Mapped(r, colrefs.value) :
                        r \in {collect_range(f, "table", table.page_num,
                                             MkRange("All", <<>>), p)}})
    IN  Only({Resolved(colrefs) : colrefs \in {column_indices(table.schema, columns)}})

\* SQLITE_MASTER_SCHEMA as TableSchema::from_sql returns it.
SqliteMasterColumns ==
    <<Column("type", "Text", FALSE), Column("name", "Text", FALSE),
      Column("tbl_name", "Text", FALSE), Column("rootpage", "Integer", FALSE),
      Column("sql", "Text", FALSE)>>

\* "table"
TypeTable == <<116, 97, 98, 108, 101>>

\* The map over the rows of type "table" in Schema::tables, collected into
\* a Result: the first error ends it.
RECURSIVE TablesOf(_, _)
TablesOf(selected, acc) ==
    IF selected = <<>> THEN Ok(acc)
    ELSE LET row == Head(selected)
             Made(t) == IF ~t.ok THEN t ELSE TablesOf(Tail(selected), Append(acc, t.value))
             Sql(page_num, name, sql) ==
                 IF ~sql.ok THEN sql
                 ELSE Only({Made(t) : t \in {Table_new(Sat(page_num.value), name.value,
                                                       sql.value)}})
             Name(page_num, name) ==
                 IF ~name.ok THEN name
                 ELSE Only({Sql(page_num, name, sql) : sql \in {as_text(row["sql"])}})
             Page(page_num) ==
                 IF ~page_num.ok THEN page_num
                 ELSE Only({Name(page_num, name) : name \in {as_text(row["tbl_name"])}})
             Typed(ty) ==
                 IF ~(ty.ok /\ ty.value = TypeTable) THEN TablesOf(Tail(selected), acc)
                 ELSE Only({Page(page_num) : page_num \in {as_integer(row["rootpage"])}})
         IN  Only({Typed(ty) : ty \in {as_text(row["type"])}})

\* Schema::tables, with the position of the file after it.
Schema_tables(f, p) ==
    LET Selected(r) ==
            IF r.st # "ok" THEN [res |-> Err(r.err), pos |-> r.pos]
            ELSE [res |-> TablesOf(r.rows, <<>>), pos |-> r.pos]
    IN  Only({Selected(r) :
                r \in {Table_select(f, p, MkTable(1, <<>>, SqliteMasterColumns),
                                    <<"type", "tbl_name", "rootpage", "sql">>)}})

\* Schema::table.
Schema_table(f, p, name) ==
    LET Found(tables) ==
            IF \E i \in 1..Len(tables) : tables[i].name = name
            THEN Ok(tables[CHOOSE i \in 1..Len(tables) :
                        /\ tables[i].name = name
                        /\ \A j \in 1..(i - 1) : tables[j].name # name])
            ELSE Err(<<"TableDoesNotExist", name>>)
        Listed(t) ==
            IF ~t.res.ok THEN t
            ELSE [res |-> Found(t.res.value), pos |-> t.pos]
    IN  Only({Listed(t) : t \in {Schema_tables(f, p)}})

(***************************************************************************)
(* The database files of the model.  A B-tree is laid out from a sorted    *)
(* sequence of entries e in 1..MaxKey: entry e is the row with row-id e of *)
(* a table, or the record ((e + 1) \div 2, 2 - e % 2) of an index, so that *)
(* the order of the entries is the order of their keys.                    *)
(***************************************************************************)
MaxKey == 5

\* How many next() calls a client makes after the cursor has returned None.
MaxCalls == 2

Entries == 1..MaxKey

EncVarint(n) == IF n < 128 THEN <<n>> ELSE <<128 + (n \div 128), n % 128>>

U32BE(n) == <<n \div 16777216, (n \div 65536) % 256, (n \div 256) % 256, n % 256>>

\* A record of small integers as SQLite writes it: 0 and 1 have the serial
\* types 8 and 9 and no payload, any other value is one byte of serial type 1.
SerialOf(v) == IF v = 0 THEN 8 ELSE IF v = 1 THEN 9 ELSE 1

RECURSIVE PayloadOf(_)
PayloadOf(vals) ==
    IF vals = <<>> THEN <<>>
    ELSE (IF Head(vals) \in {0, 1} THEN <<>> ELSE <<Head(vals)>>) \o PayloadOf(Tail(vals))

RecordBytes(vals) ==
    <<Len(vals) + 1>> \o [i \in 1..Len(vals) |-> SerialOf(vals[i])] \o PayloadOf(vals)

IndexVals(e) == <<(e + 1) \div 2, 2 - (e % 2)>>

RowId(e) == e

TableLeafCellBytes(e) ==
    LET r == RecordBytes(<<e>>) IN EncVarint(Len(r)) \o EncVarint(RowId(e)) \o r

TableInteriorCellBytes(left, e) == U32BE(left) \o EncVarint(RowId(e))

IndexLeafCellBytes(e) ==
    LET r == RecordBytes(IndexVals(e)) IN EncVarint(Len(r)) \o r

IndexInteriorCellBytes(left, e) ==
    LET r == RecordBytes(IndexVals(e)) IN U32BE(left) \o EncVarint(Len(r)) \o r

\* The type bytes of the four page kinds.
PageTypeByte(k, level) ==
    CASE k = "table" /\ level = "Leaf"     -> 13
      [] k = "table" /\ level = "Interior" -> 5
      [] k = "index" /\ level = "Leaf"     -> 10
      [] k = "index" /\ level = "Interior" -> 2

\* The i-th page of a B-tree of np pages (its root is i = 0).  "low": the
\* pages 2, 3, ... of a small file.  "high": pages scattered over a file of
\* more than 2^24 pages, so that the first byte of a page number is not 0.
PageNo(placement, np, i) ==
    IF placement = "low" THEN 2 + i ELSE (np - i) * 16777216 + 2 + i

Placements == {"low", "high"}

LeafPage(k, run) ==
    [ty    |-> PageTypeByte(k, "Leaf"),
     cells |-> [i \in 1..Len(run) |->
                  IF k = "table" THEN TableLeafCellBytes(run[i])
                  ELSE IndexLeafCellBytes(run[i])],
     right |-> 0]

\* An interior page whose i-th cell points to lefts[i] and has the key of keys[i].
InteriorPage(k, lefts, keys, right) ==
    [ty    |-> PageTypeByte(k, "Interior"),
     cells |-> [i \in 1..Len(lefts) |->
                  IF k = "table" THEN TableInteriorCellBytes(lefts[i], keys[i])
                  ELSE IndexInteriorCellBytes(lefts[i], keys[i])],
     right |-> right]

RECURSIVE SortedSeq(_)
SortedSeq(S) ==
    IF S = {} THEN <<>>
    ELSE LET m == CHOOSE x \in S : \A y \in S : x <= y
         IN  <<m>> \o SortedSeq(S \ {m})

\* Every way to cut a sequence into consecutive runs of at least min elements.
RECURSIVE Cuts(_, _)
Cuts(s, min) ==
    IF s = <<>> THEN {<<>>}
    ELSE UNION {{<<SubSeq(s, 1, i)>> \o rest : rest \in Cuts(SubSeq(s, i + 1, Len(s)), min)}
                : i \in min..Len(s)}

RECURSIVE Flatten(_)
Flatten(ss) == IF ss = <<>> THEN <<>> ELSE Head(ss) \o Flatten(Tail(ss))

Last(s) == s[Len(s)]

Range(s) == {s[i] : i \in 1..Len(s)}

\* A leaf run of a table holds all of its entries.  In an index an interior
\* cell carries an entry of its own: the last entry of the run to its left.
LeafRun(k, run, isLast) ==
    IF k = "table" \/ isLast THEN run ELSE SubSeq(run, 1, Len(run) - 1)

MinRun(k) == IF k = "table" THEN 1 ELSE 2

\* Height 1: the root is a leaf.
TreeH1(k, placement, keys) ==
    [n \in {PageNo(placement, 1, 0)} |-> LeafPage(k, keys)]

\* Height 2: the root is an interior over the leaves of runs.
TreeH2(k, placement, runs) ==
    LET m  == Len(runs)
        np == m + 1
        pn(i) == PageNo(placement, np, i)
        pages == <<InteriorPage(k, [i \in 1..(m - 1) |-> pn(i)],
                                [i \in 1..(m - 1) |-> Last(runs[i])], pn(m))>>
                 \o [i \in 1..m |-> LeafPage(k, LeafRun(k, runs[i], i = m))]
    IN  [n \in {pn(i) : i \in 0..(np - 1)} |-> pages[(n % 16777216) - 1]]

\* Height 3 (tables): the root is an interior over one interior per group.
TreeH3(k, placement, groups) ==
    LET g  == Len(groups)
        nl == Len(Flatten(groups))
        np == 1 + g + nl
        pn(i) == PageNo(placement, np, i)
        \* the number of leaves before group j
        before(j) == Len(Flatten(SubSeq(groups, 1, j - 1)))
        leafNo(j, i) == pn(g + before(j) + i)
        inner(j) == LET runs == groups[j]
                        m == Len(runs)
                    IN  InteriorPage(k, [i \in 1..(m - 1) |-> leafNo(j, i)],
                                     [i \in 1..(m - 1) |-> Last(runs[i])], leafNo(j, m))
        rootPage == InteriorPage(k, [j \in 1..(g - 1) |-> pn(j)],
                                 [j \in 1..(g - 1) |-> Last(Last(groups[j]))], pn(g))
        leaves == Flatten(groups)
        pages == <<rootPage>> \o [j \in 1..g |-> inner(j)]
                 \o [i \in 1..nl |-> LeafPage(k, leaves[i])]
    IN  [n \in {pn(i) : i \in 0..(np - 1)} |-> pages[(n % 16777216) - 1]]

\* The B-trees over the entries of keys: the single leaf, every height-2
\* layout, and for tables every height-3 layout.
TreesOver(k, keys) ==
    LET s == SortedSeq(keys)
        runs2 == {r \in Cuts(s, 1) :
                     /\ Len(r) >= 2
                     /\ \A i \in 1..(Len(r) - 1) : Len(r[i]) >= MinRun(k)}
        groups3 == UNION {{g \in Cuts(r, 2) : Len(g) >= 2} : r \in Cuts(s, 1)}
    IN  {TreeH1(k, pl, s) : pl \in Placements}
        \cup {TreeH2(k, pl, r) : pl \in Placements, r \in runs2}
        \cup (IF k = "table"
              THEN {TreeH3(k, pl, g) : pl \in Placements, g \in groups3}
              ELSE {})

\* The root of a tree of the model is its page i = 0.
RootOf(f) == CHOOSE n \in DOMAIN f : n % 16777216 = 2

TableRanges ==
    {MkRange("All", Zero64)}
    \cup {MkRange(t, U64(key)) : t \in {"One", "GtEq"}, key \in 0..(MaxKey + 1)}

\* Record::new over Field::from(u64).
ProbeRecord(vals) == [i \in 1..Len(vals) |-> IntegerField(vals[i])]

IndexProbes ==
    {ProbeRecord(<<a>>) : a \in 0..((MaxKey + 3) \div 2)}
    \cup {ProbeRecord(IndexVals(e)) : e \in Entries}
    \cup {ProbeRecord(<<1, 1, 1>>)}

IndexRanges == {MkRange("All", <<>>)} \cup {MkRange("Index", r) : r \in IndexProbes}

(***************************************************************************)
(* The state machine.  Pager::open has read the 100 bytes of the header    *)
(* (the file position is inside page 1).  Under Spec cursor 1 is created   *)
(* by iter_range over the B-tree and a client calls next() on it.          *)
(***************************************************************************)
Cursors == {1, 2}

\* A cursor that was not created.
NoCursor ==
    [interiors |-> <<>>, leaf |-> NoIter, last_comparison |-> "InRange",
     range |-> MkRange("None", <<>>), st |-> "closed"]

\* The parts of the state a specification does not use.
\* res is the Result of the last call of read_varint or of an accessor of a
\* Field: the function called, Ok(value) or Err(err), and the position of the
\* reader (read_varint) or of the field in its record (an accessor).
NoRes ==
    [done |-> FALSE, op |-> "none", ok |-> FALSE, value |-> Zero64, pos |-> 0, err |-> <<>>]

NoVarint == data = <<>> /\ res = NoRes

NoGot == [op |-> "none", key |-> <<>>, st |-> "ok", cells |-> <<>>]

NoOps == got = NoGot

InitFile(k, keys, f) ==
    /\ file = f
    /\ root = RootOf(f)
    /\ kind = k
    /\ rows = SortedSeq(keys)
    /\ out = [i \in Cursors |-> <<>>]
    /\ calls = [i \in Cursors |-> 0]
    /\ pc = "idle"
    /\ NoVarint

\* The file, and cursor 1 created by iter_range(range).
InitCursor(k, keys, f, range) ==
    LET Created(m) ==
            /\ pos = m.pos
            /\ cur = [i \in Cursors |-> IF i = 1 THEN m.c ELSE NoCursor]
    IN  /\ InitFile(k, keys, f)
        /\ \E m \in {iter_range(f, k, RootOf(f), range, 0)} : Created(m)
        /\ NoOps

InitTable ==
    \E keys \in SUBSET Entries : \E f \in TreesOver("table", keys), range \in TableRanges :
        InitCursor("table", keys, f, range)

InitIndex ==
    \E keys \in SUBSET Entries : \E f \in TreesOver("index", keys), range \in IndexRanges :
        InitCursor("index", keys, f, range)

Init == InitTable \/ InitIndex

\* A turn of next() on one cursor that moves every cursor: the stack, the
\* leaf and the last comparison are kept in one place for all of them.
SteppedShared(i, t) ==
    /\ cur' = [j \in Cursors |-> t.m.c]
    /\ pos' = t.m.pos
    /\ out' = [out EXCEPT ![i] = IF t.ret = "some" THEN Append(@, t.cell) ELSE @]
    /\ calls' = [calls EXCEPT ![i] = IF t.ret = "none" THEN @ + 1 ELSE @]

\* A next() that rewinds the cursor to the root when it returns None.
SteppedRewound(i, t) ==
    LET m == IF t.ret = "none"
             THEN iter_range(file, kind, root, t.m.c.range, t.m.pos)
             ELSE t.m
    IN  /\ cur' = [cur EXCEPT ![i] = m.c]
        /\ pos' = m.pos
        /\ out' = [out EXCEPT ![i] = IF t.ret = "some" THEN Append(@, t.cell) ELSE @]
        /\ calls' = [calls EXCEPT ![i] = IF t.ret = "none" THEN @ + 1 ELSE @]

\* next() on cursor i has ended its turn t.
Stepped(i, t) ==
    /\ cur' = [cur EXCEPT ![i] = t.m.c]
    /\ pos' = t.m.pos
    /\ out' = [out EXCEPT ![i] = IF t.ret = "some" THEN Append(@, t.cell) ELSE @]
    /\ calls' = [calls EXCEPT ![i] = IF t.ret = "none" THEN @ + 1 ELSE @]

\* A client calls next() on cursor i.
CallNext(i) ==
    /\ pc = "idle"
    /\ cur[i].st = "ok"
    /\ calls[i] < MaxCalls
    /\ \E t \in {BTreeIter_next(file, kind, [c |-> cur[i], pos |-> pos])} : Stepped(i, t)
    /\ UNCHANGED <<file, root, kind, rows, pc, got, data, res>>

Next == CallNext(1)

Spec == Init /\ [][Next]_vars

(***************************************************************************)
(* SpecOps: no cursor is held by the client; it calls the operations that  *)
(* run a traversal to its end: BTree::get on a table, Index::dump and      *)
(* Index::scan on an index.                                                *)
(***************************************************************************)
\* Index::dump and Index::scan: the records of the collected cells.
Index_collect(f, page_num, range, p) ==
    LET Records(r) ==
            [st |-> r.st, pos |-> r.pos,
             cells |-> [i \in 1..Len(r.cells) |-> r.cells[i].record]]
    IN  Only({Records(r) : r \in {collect_range(f, "index", page_num, range, p)}})

Index_dump(f, page_num, p) == Index_collect(f, page_num, MkRange("All", <<>>), p)

Index_scan(f, page_num, record, p) ==
    Index_collect(f, page_num, MkRange("Index", record), p)

InitOps ==
    \E k \in {"table", "index"}, keys \in SUBSET Entries : \E f \in TreesOver(k, keys) :
        /\ InitFile(k, keys, f)
        /\ pos = 0
        /\ cur = [i \in Cursors |-> NoCursor]
        /\ NoOps

\* The result r of the operation op with the argument key.
Returned(op, key, r) ==
    /\ got' = [op |-> op, key |-> key, st |-> r.st, cells |-> r.cells]
    /\ pos' = r.pos
    /\ UNCHANGED <<file, root, kind, rows, cur, out, calls, pc, data, res>>

CallGet(key) ==
    /\ kind = "table"
    /\ \E r \in {get(file, root, key, pos)} : Returned("get", key, r)

CallDump ==
    /\ kind = "index"
    /\ \E r \in {Index_dump(file, root, pos)} : Returned("dump", <<>>, r)

CallScan(record) ==
    /\ kind = "index"
    /\ \E r \in {Index_scan(file, root, record, pos)} : Returned("scan", record, r)

NextOps ==
    \/ \E key \in 0..(MaxKey + 1) : CallGet(U64(key))
    \/ CallDump
    \/ \E record \in IndexProbes : CallScan(record)

SpecOps == InitOps /\ [][NextOps]_vars

(***************************************************************************)
(* SpecVarint: read_varint over a Cursor at the start of a buffer.  The    *)
(* buffers are a run of bytes with the high bit set followed by a few      *)
(* bytes of either kind, so that varints of every length from 1 to 9,      *)
(* truncated varints and varints followed by other bytes all occur.        *)
(***************************************************************************)
\* The longest run of leading bytes with the high bit set.
MaxCont == 8

\* The most bytes after that run.
MaxTail == 2

ContBytes == {129, 255}

TailBytes == {0, 127, 255}

SeqsUpTo(S, n) == UNION {[1..m -> S] : m \in 0..n}

VarintInputs ==
    {c \o t : c \in SeqsUpTo(ContBytes, MaxCont), t \in SeqsUpTo(TailBytes, MaxTail)}

\* The parts of the state that belong to a B-tree: there is none.
NoFile ==
    /\ file = [n \in {1} |-> ZeroPage]
    /\ root = 0
    /\ kind = "none"
    /\ pos = 0
    /\ cur = [i \in Cursors |-> NoCursor]
    /\ out = [i \in Cursors |-> <<>>]
    /\ calls = [i \in Cursors |-> 0]
    /\ pc = "idle"

NoTree == NoFile /\ rows = <<>> /\ NoOps

InitVarint ==
    /\ data \in VarintInputs
    /\ res = NoRes
    /\ NoTree

\* read_varint has returned r.
Decoded(r) ==
    res' = [done |-> TRUE, op |-> "read_varint", ok |-> r.ok, value |-> r.value,
            pos |-> r.pos, err |-> r.err]

CallReadVarint ==
    /\ ~res.done
    /\ \E r \in {read_varint(data, 0)} : Decoded(r)
    /\ UNCHANGED <<file, root, kind, rows, pos, cur, out, calls, pc, got, data>>

NextVarint == CallReadVarint

SpecVarint == InitVarint /\ [][NextVarint]_vars

(***************************************************************************)
(* SpecRecord: a client decodes one record with Record::from_bytes and     *)
(* then reads its fields through the accessors of Field.  rows keeps the   *)
(* serial type and the payload of each field the record was written with.  *)
(***************************************************************************)
\* The most fields of a record, and the largest serial type of a field.
MaxFields == 2

MaxSerial == 17

SerialTypes == 0..MaxSerial

\* The first byte of a payload, and the byte that fills the rest of it.
TopBytes == {1, 128, 195, 255}

FillBytes == {0, 169, 255}

\* The payload size the file format gives to serial type n.
SerialSize(n) ==
    IF n \in {0, 8, 9, 10, 11} THEN 0
    ELSE IF n \in 1..4 THEN n
    ELSE IF n = 5 THEN 6
    ELSE IF n \in {6, 7} THEN 8
    ELSE IF n % 2 = 0 THEN (n - 12) \div 2
    ELSE (n - 13) \div 2

Payloads(size) ==
    IF size = 0 THEN {<<>>}
    ELSE {<<t>> \o [i \in 1..(size - 1) |-> f] : t \in TopBytes, f \in FillBytes}

FieldEnc(n, payload) == [serial |-> n, payload |-> payload]

FieldEncs == UNION {{FieldEnc(n, p) : p \in Payloads(SerialSize(n))} : n \in SerialTypes}

\* The fields that stand next to the field a record is about.
Companions == {FieldEnc(0, <<>>), FieldEnc(1, <<255>>), FieldEnc(16, <<1, 0>>)}

RecordsOf(m) ==
    {[i \in 1..m |-> IF i = k THEN e ELSE c[i]] :
        k \in 1..m, e \in FieldEncs, c \in [1..m -> Companions]}

RecordEncs == UNION {RecordsOf(m) : m \in 1..MaxFields}

\* The bytes of a record: the header size, the serial types, the payloads.
EncodedRecord(encs) ==
    LET types == Flatten([i \in 1..Len(encs) |-> EncVarint(encs[i].serial)])
    IN  EncVarint(Len(types) + 1) \o types
            \o Flatten([i \in 1..Len(encs) |-> encs[i].payload])

InitRecord ==
    /\ rows \in RecordEncs
    /\ data = EncodedRecord(rows)
    /\ res = NoRes
    /\ NoOps
    /\ NoFile

CallRecordFromBytes ==
    /\ got.op = "none"
    /\ \E r \in {Record_from_bytes(data)} :
           got' = [op |-> "from_bytes", key |-> <<>>, st |-> r.st, cells |-> r.fields]
    /\ UNCHANGED <<file, root, kind, rows, pos, cur, out, calls, pc, data, res>>

\* record[i - 1].acc() on the decoded record.
CallAccessor(acc, i) ==
    /\ got.op = "from_bytes"
    /\ got.st = "ok"
    /\ i \in 1..Len(got.cells)
    /\ \E r \in {Accessor(acc, got.cells[i])} :
           res' = [done |-> TRUE, op |-> acc, ok |-> r.ok, value |-> r.value,
                   pos |-> i, err |-> r.err]
    /\ UNCHANGED <<file, root, kind, rows, pos, cur, out, calls, pc, data, got>>

NextRecord ==
    \/ CallRecordFromBytes
    \/ \E acc \in Accessors, i \in 1..MaxFields : CallAccessor(acc, i)

SpecRecord == InitRecord /\ [][NextRecord]_vars

(***************************************************************************)
(* SpecHeader: a client hands the first bytes of a file to                 *)
(* DbHeader::parse, or opens the file with Pager::open.                    *)
(***************************************************************************)
\* The longest file, and the largest u16.
MaxFileLen == 101

MaxU16 == 65535

\* A header with n in its page-size field and 2 as its number of pages,
\* followed by the first byte of page 1's content.
HeaderBytes(n) ==
    [i \in 1..MaxFileLen |->
        IF i <= Len(Magic) THEN Magic[i]
        ELSE IF i = 17 THEN n \div 256
        ELSE IF i = 18 THEN n % 256
        ELSE IF i = 32 THEN 2
        ELSE 0]

\* The page sizes of the files that are cut short or have a wrong magic.
CutSizes == {0, 1, 4096}

Corrupted(bytes) ==
    {[bytes EXCEPT ![k] = (bytes[k] + 1) % 256] :
        k \in {j \in 1..Len(Magic) : j <= Len(bytes)}}

\* The headers of 100 bytes with every value of sizes as their page-size
\* field, and the files that are cut short or have a wrong magic.
HeaderInputs(sizes) ==
    LET cut == {SubSeq(HeaderBytes(n), 1, len) : n \in CutSizes, len \in 0..MaxFileLen}
    IN  {SubSeq(HeaderBytes(n), 1, HeaderLen) : n \in sizes}
            \cup cut \cup UNION {Corrupted(bytes) : bytes \in cut}

InitHeader ==
    /\ data \in HeaderInputs(0..MaxU16)
    /\ res = NoRes
    /\ NoTree

\* The call op has returned r.
Opened(op, r) ==
    res' = [done |-> TRUE, op |-> op, ok |-> r.ok, value |-> r.value, pos |-> 0,
            err |-> r.err]

CallParse ==
    /\ \E r \in {DbHeader_parse(data)} : Opened("parse", r)
    /\ UNCHANGED <<file, root, kind, rows, pos, cur, out, calls, pc, got, data>>

CallOpen ==
    /\ \E r \in {Pager_open(data)} : Opened("open", r)
    /\ UNCHANGED <<file, root, kind, rows, pos, cur, out, calls, pc, got, data>>

NextHeader == CallParse \/ CallOpen

SpecHeader == InitHeader /\ [][NextHeader]_vars

(***************************************************************************)
(* SpecSchema: a client looks tables up by name with Schema::table.  Page  *)
(* 1 of the file is the leaf of sqlite_master; rows keeps the rows that    *)
(* were written to it.                                                     *)
(***************************************************************************)
\* The most rows of sqlite_master.
MaxMaster == 3

\* "index"
TypeIndex == <<105, 110, 100, 101, 120>>

\* The name "t" followed by the digit n.
TableName(n) == <<116, 48 + n>>

\* "i1"
IndexName == <<105, 49>>

MasterRow(ty, name, tbl_name, rootpage, sql) ==
    [type |-> ty, name |-> name, tbl_name |-> tbl_name, rootpage |-> rootpage, sql |-> sql]

\* The rows a sqlite_master is made of: four tables, of which t3 has a
\* BLOB column and t4 is a virtual table, an index on t1, and a second row
\* of a table named t1.
MasterRows ==
    {MasterRow(TypeTable, TableName(1), TableName(1), 2, SqlT1),
     MasterRow(TypeTable, TableName(2), TableName(2), 3, SqlT2),
     MasterRow(TypeTable, TableName(3), TableName(3), 4, SqlT3),
     MasterRow(TypeTable, TableName(4), TableName(4), 5, SqlT4),
     MasterRow(TypeIndex, IndexName, TableName(1), 6, SqlT1),
     MasterRow(TypeTable, TableName(1), TableName(1), 7, SqlT1)}

Masters ==
    {m \in SeqsUpTo(MasterRows, MaxMaster) :
        \A i, j \in 1..Len(m) : i # j => m[i] # m[j]}

TextEnc(text) == FieldEnc(13 + 2 * Len(text), text)

MasterRecord(row) ==
    EncodedRecord(<<TextEnc(row.type), TextEnc(row.name), TextEnc(row.tbl_name),
                    FieldEnc(1, <<row.rootpage>>), TextEnc(row.sql)>>)

\* A table leaf cell: the payload length, the row-id, the record.
LeafCellBytes(row_id, record) == EncVarint(Len(record)) \o EncVarint(row_id) \o record

MasterPage(m) ==
    [ty    |-> PageTypeByte("table", "Leaf"),
     cells |-> [i \in 1..Len(m) |-> LeafCellBytes(i, MasterRecord(m[i]))],
     right |-> 0]

\* The names a client asks for: t5 is in no file.
LookupNames == {TableName(n) : n \in 1..5}

InitSchema ==
    /\ rows \in Masters
    /\ file = [n \in {1} |-> MasterPage(rows)]
    /\ root = 1
    /\ kind = "table"
    /\ pos = 0
    /\ cur = [i \in Cursors |-> NoCursor]
    /\ out = [i \in Cursors |-> <<>>]
    /\ calls = [i \in Cursors |-> 0]
    /\ pc = "idle"
    /\ NoOps
    /\ NoVarint

CallTable(name) ==
    /\ \E t \in {Schema_table(file, pos, name)} :
           /\ got' = [op |-> "table", key |-> name,
                      st |-> IF t.res.ok THEN "ok"
                             ELSE IF t.res.err = <<"panic">> THEN "panic" ELSE "err",
                      cells |-> <<>>]
           /\ res' = [done |-> TRUE, op |-> "table", ok |-> t.res.ok,
                      value |-> t.res.value, pos |-> 0, err |-> t.res.err]
           /\ pos' = t.pos
    /\ UNCHANGED <<file, root, kind, rows, cur, out, calls, pc, data>>

NextSchema == \E name \in LookupNames : CallTable(name)

SpecSchema == InitSchema /\ [][NextSchema]_vars

(***************************************************************************)
(* SpecSelect: a client selects columns of a table with Table::select.     *)
(* data is the CREATE TABLE statement of the table and rows keeps the rows *)
(* that were written to it, each with its row-id and its stored fields.    *)
(***************************************************************************)
\* The largest row-id of a table.
MaxRows == 3

\* The statements of the tables: p and q have one INTEGER PRIMARY KEY
\* column, r has no primary key, s has a TEXT one and u has two.
SelectTables == {SqlP, SqlQ, SqlR, SqlS, SqlU}

\* The file format stores the row-id in place of a column when that column
\* is the only primary-key column and is an integer.
RowIdAlias(fields, i) ==
    /\ fields[i].primary_key
    /\ fields[i].sql_type = "Int"
    /\ \A j \in 1..Len(fields) : fields[j].primary_key => j = i

\* What the row with row-id e stores for column i: a Null for the alias of
\* the row-id, the text "x<e>" or the integer 16 * i + e for the others.
StoredField(fields, i, e) ==
    IF RowIdAlias(fields, i) THEN FieldEnc(0, <<>>)
    ELSE IF fields[i].sql_type = "Text" THEN TextEnc(<<120, 48 + e>>)
    ELSE FieldEnc(1, <<16 * i + e>>)

StoredRow(fields, e) ==
    [row_id |-> e, fields |-> [i \in 1..Len(fields) |-> StoredField(fields, i, e)]]

StoredRows(sql, ids) ==
    LET fields == parse_query(sql).fields
        sorted == SortedSeq(ids)
    IN  [i \in 1..Len(sorted) |-> StoredRow(fields, sorted[i])]

SelectLeaf(stored) ==
    [ty    |-> PageTypeByte("table", "Leaf"),
     cells |-> [i \in 1..Len(stored) |->
                  LeafCellBytes(stored[i].row_id, EncodedRecord(stored[i].fields))],
     right |-> 0]

\* The table as one leaf, or as an interior root over two leaves.
SelectFiles(stored) ==
    {[n \in {2} |-> SelectLeaf(stored)]}
        \cup {[n \in {2, 3, 4} |->
                  IF n = 2
                  THEN [ty    |-> PageTypeByte("table", "Interior"),
                        cells |-> <<TableInteriorCellBytes(3, stored[c].row_id)>>,
                        right |-> 4]
                  ELSE IF n = 3 THEN SelectLeaf(SubSeq(stored, 1, c))
                  ELSE SelectLeaf(SubSeq(stored, c + 1, Len(stored)))] :
               c \in 1..(Len(stored) - 1)}

\* The column lists a client asks for: c is a column of no table.
SelectColumns == {cols \in SeqsUpTo({"a", "b", "c"}, 2) : cols # <<>>}

InitSelect ==
    /\ data \in SelectTables
    /\ \E ids \in SUBSET (1..MaxRows) :
           /\ rows = StoredRows(data, ids)
           /\ file \in SelectFiles(rows)
    /\ root = 2
    /\ kind = "table"
    /\ pos = 0
    /\ cur = [i \in Cursors |-> NoCursor]
    /\ out = [i \in Cursors |-> <<>>]
    /\ calls = [i \in Cursors |-> 0]
    /\ pc = "idle"
    /\ NoOps
    /\ res = NoRes

\* Table::new(pager, root, name, data)?.select(columns)
CallSelect(columns) ==
    /\ \E t \in {Table_new(root, <<>>, data)} :
           /\ t.ok
           /\ \E r \in {Table_select(file, pos, t.value, columns)} :
                  /\ got' = [op |-> "select", key |-> columns, st |-> r.st,
                             cells |-> r.rows]
                  /\ pos' = r.pos
    /\ UNCHANGED <<file, root, kind, rows, cur, out, calls, pc, data, res>>

NextSelect == \E columns \in SelectColumns : CallSelect(columns)

SpecSelect == InitSelect /\ [][NextSelect]_vars

(***************************************************************************)
(* SpecDamaged: the operations of SpecOps and Table::len on a file with    *)
(* one damaged page: a leaf with a cell that does not decode, or a page    *)
(* whose type byte is none of 2, 5, 10 and 13.  data is the damaged cell.  *)
(***************************************************************************)
\* Table::len: the length of the collected full scan.
Table_len(f, page_num, p) == collect_range(f, "table", page_num, MkRange("All", <<>>), p)

\* A cell at the end of its page that ends inside a varint, a record with
\* the reserved serial type 10, and a record whose one-byte field is
\* beyond the end of the page.
DamagedCells(k) ==
    IF k = "table"
    THEN {<<129>>, <<2, 1, 2, 10>>, <<2, 1, 2, 1>>}
    ELSE {<<129>>, <<2, 2, 10>>, <<2, 2, 1>>}

LeafPages(f) == {n \in DOMAIN f : get_page_type(f[n]) = "Leaf"}

WithCell(f, n, i, cell) == [f EXCEPT ![n].cells[i] = cell]

\* The type bytes that are none of the four page kinds.  A type byte keeps
\* the layout of its page when it has the bit 0x8 that the page had.
UnknownTypes == {0, 7, 8, 255}

WithType(f, n, ty) == [f EXCEPT ![n].ty = ty]

KnownTypes == {2, 5, 10, 13}

\* The largest entry of the trees that are damaged.
MaxKeyDamaged == 4

InitDamaged ==
    \E k \in {"table", "index"}, keys \in SUBSET (1..MaxKeyDamaged) :
      \E f \in TreesOver(k, keys) :
        /\ \/ \E n \in LeafPages(f) : \E i \in 1..Len(f[n].cells) :
                 \E cell \in DamagedCells(k) :
                    /\ file = WithCell(f, n, i, cell)
                    /\ data = cell
           \/ \E n \in DOMAIN f : \E ty \in UnknownTypes :
                    /\ get_page_type(WithType(f, n, ty)[n]) = get_page_type(f[n])
                    /\ file = WithType(f, n, ty)
                    /\ data = <<>>
        /\ root = RootOf(f)
        /\ kind = k
        /\ rows = SortedSeq(keys)
        /\ out = [i \in Cursors |-> <<>>]
        /\ calls = [i \in Cursors |-> 0]
        /\ pc = "idle"
        /\ pos = 0
        /\ cur = [i \in Cursors |-> NoCursor]
        /\ res = NoRes
        /\ NoOps

CallLen ==
    /\ kind = "table"
    /\ \E r \in {Table_len(file, root, pos)} : Returned("len", <<>>, r)

NextDamaged ==
    \/ \E key \in 0..(MaxKey + 1) : CallGet(U64(key))
    \/ CallLen
    \/ CallDump
    \/ \E record \in IndexProbes : CallScan(record)

SpecDamaged == InitDamaged /\ [][NextDamaged]_vars

(***************************************************************************)
(* SpecPager: the cursors of a Pager read pages with get_page, in any      *)
(* order.  data is the header of the file, whose num_pages field need not  *)
(* agree with the length of the file; out[i] keeps every buffer that was   *)
(* returned to cursor i, with the page number it was asked for.            *)
(***************************************************************************)
\* The most calls of get_page.
MaxReads == 3

\* The largest row-id of the files pages are read from.
MaxKeyPager == 2

\* The header of a file of page size 4096 whose in-header database size is
\* num_pages.
PagerHeader(num_pages) ==
    [SubSeq(HeaderBytes(4096), 1, HeaderLen) EXCEPT ![32] = num_pages]

\* Pager.header.num_pages of the Pager opened on a file with this header.
Pager_num_pages(bytes) == Pager_open(bytes).value[3]

InitPager ==
    \E k \in {"table", "index"}, keys \in SUBSET (1..MaxKeyPager) :
      \E f \in {t \in TreesOver(k, keys) : RootOf(t) = 2} :
        \E num_pages \in 0..(FilePages(f) + 1) :
            /\ file = f
            /\ root = RootOf(f)
            /\ kind = k
            /\ rows = SortedSeq(keys)
            /\ out = [i \in Cursors |-> <<>>]
            /\ calls = [i \in Cursors |-> 0]
            /\ pc = "idle"
            /\ data = PagerHeader(num_pages)
            /\ res = NoRes
            /\ pos = 0
            /\ cur = [i \in Cursors |-> NoCursor]
            /\ NoOps

\* Cursor i calls get_page(number) and keeps the buffer it returns.
CallGetPage(i, number) ==
    /\ calls[1] + calls[2] < MaxReads
    /\ \E r \in {get_page(file, pos, number)} :
          /\ got' = [op |-> "get_page", key |-> <<number>>,
                     st |-> IF r.ok THEN "ok" ELSE "err",
                     cells |-> IF r.ok THEN <<r.page>> ELSE <<>>]
          /\ pos' = r.pos
          /\ out' = [out EXCEPT ![i] =
                        IF r.ok THEN Append(@, [number |-> number, page |-> r.page]) ELSE @]
    /\ calls' = [calls EXCEPT ![i] = @ + 1]
    /\ UNCHANGED <<file, root, kind, rows, cur, pc, data, res>>

NextPager == \E i \in Cursors : \E number \in 0..(FilePages(file) + 1) : CallGetPage(i, number)

SpecPager == InitPager /\ [][NextPager]_vars

(***************************************************************************)
(* SpecCell: PageIter::next decodes the body of a table-interior cell with *)
(* TableInteriorCell::from_bytes.  data is the body; rows keeps the left   *)
(* child and the row-id that were written to it.                           *)
(***************************************************************************)
\* Page numbers with a first byte of 0, below 128, and of 128 or more in
\* their other bytes.
CellLefts == {1, 2, 3, 127, 128, 255, 256, 65536, 16777218, 33554435, 2130706433}

\* Row-ids of one and of two varint bytes.
CellRowIds == {0, 1, 2, 3, 5, 127, 128, 129, 300, 16383}

InitCell ==
    \E left \in CellLefts, row_id \in CellRowIds :
        /\ data = U32BE(left) \o EncVarint(row_id)
        /\ rows = <<left, row_id>>
        /\ res = NoRes
        /\ NoFile
        /\ NoOps

CallFromBytes ==
    /\ got = NoGot
    /\ \E cell \in {TableInteriorCell_from_bytes(data)} :
          got' = [op |-> "from_bytes", key |-> <<>>, st |-> cell.st, cells |-> <<cell>>]
    /\ UNCHANGED <<file, root, kind, rows, pos, cur, out, calls, pc, data, res>>

NextCell == CallFromBytes

SpecCell == InitCell /\ [][NextCell]_vars

(***************************************************************************)
(* SpecPrefix: the cursor of Index::scan compares its probe with the key   *)
(* of a cell.  rows is <<probe, key>>: the probe is a Record::new over     *)
(* Field::from values, the key a record decoded from the bytes of a cell.  *)
(***************************************************************************)
\* The most fields of a probe and of a stored key.
MaxProbe == 2

MaxStored == 2

\* Field::from(&str).
TextField(bytes) == MkField("Text", Zero64, bytes)

\* The fields of the probes: the integers 0, 1 and 255, and the texts "a"
\* and "ab".
ProbeFields ==
    {IntegerField(n) : n \in {0, 1, 255}} \cup {TextField(t) : t \in {<<97>>, <<97, 98>>}}

\* The fields of the stored keys: a Null, the integers 1 and 255 of one
\* byte, 0 and 1 without a payload, the texts "a" and "ab", the blob "a",
\* and a text that is not UTF-8.
StoredEncs ==
    {FieldEnc(0, <<>>), FieldEnc(1, <<1>>), FieldEnc(1, <<255>>),
     FieldEnc(8, <<>>), FieldEnc(9, <<>>), FieldEnc(15, <<97>>), FieldEnc(17, <<97, 98>>),
     FieldEnc(14, <<97>>), FieldEnc(15, <<255>>)}

InitPrefix ==
    \E n \in 0..MaxProbe, m \in 0..MaxStored :
      \E probe \in [1..n -> ProbeFields], encs \in [1..m -> StoredEncs] :
        /\ rows = <<probe, Record_from_bytes(EncodedRecord(encs)).fields>>
        /\ data = EncodedRecord(encs)
        /\ res = NoRes
        /\ NoFile
        /\ NoOps

\* IndexRange(probe).compare(key).
CallCompare ==
    /\ got = NoGot
    /\ \E cmp \in {IndexRange_compare(rows[1], rows[2])} :
          got' = [op |-> "compare", key |-> rows[1], st |-> cmp, cells |-> <<rows[2]>>]
    /\ UNCHANGED <<file, root, kind, rows, pos, cur, out, calls, pc, data, res>>

NextPrefix == CallCompare

SpecPrefix == InitPrefix /\ [][NextPrefix]_vars

(***************************************************************************)
(* SpecPage: a page of a B-tree as its bytes.  data is the page, rows is   *)
(* <<page, offsets, header_offset>>: the page that was written, the offset *)
(* each of its cells was written at, and where its header starts.  A       *)
(* client asks for cells by index, and a PageIter scans the page.          *)
(***************************************************************************)
\* The largest entry of the trees the pages are taken from.
MaxKeyPage == 3

\* The bytes of a page after its header_offset.
RawPageSize == 64

\* How far beyond len() a client asks for a cell.
MaxBeyond == 2

RECURSIVE SumLen(_, _)
SumLen(cells, i) == IF i = 0 THEN 0 ELSE Len(cells[i]) + SumLen(cells, i - 1)

\* The cells are written from the end of the page backwards.
CellOffsets(page, size) == [i \in 1..Len(page.cells) |-> size - SumLen(page.cells, i)]

U16BE(n) == <<n \div 256, n % 256>>

\* The bytes of a page: header_offset bytes of the file header, the page
\* header, the cell pointers, the unallocated space filled with the byte
\* gap, and the cells.
RawBytes(page, header_offset, gap) ==
    LET size    == header_offset + RawPageSize
        n       == Len(page.cells)
        offsets == CellOffsets(page, size)
        content == IF n = 0 THEN size ELSE offsets[n]
        hdr     == <<page.ty, 0, 0>> \o U16BE(n) \o U16BE(content) \o <<0>>
                   \o (IF get_page_type(page) = "Interior" THEN U32BE(page.right) ELSE <<>>)
        ptrs    == Flatten([i \in 1..n |-> U16BE(offsets[i])])
        front   == [i \in 1..header_offset |-> 0] \o hdr \o ptrs
    IN  front \o [i \in 1..(content - Len(front)) |-> gap]
              \o Flatten([i \in 1..n |-> page.cells[n + 1 - i]])

InitPage ==
    \E k \in {"table", "index"}, keys \in SUBSET (1..MaxKeyPage) :
      \E f \in {t \in TreesOver(k, keys) : RootOf(t) = 2} :
        \E number \in DOMAIN f, header_offset \in {0, HeaderLen}, gap \in {0, 1} :
            /\ file = f
            /\ root = RootOf(f)
            /\ kind = k
            /\ rows = <<f[number], CellOffsets(f[number], header_offset + RawPageSize),
                        header_offset>>
            /\ data = RawBytes(f[number], header_offset, gap)
            /\ out = [i \in Cursors |-> <<>>]
            /\ calls = [i \in Cursors |-> 0]
            /\ pc = "idle"
            /\ res = NoRes
            /\ pos = 0
            /\ cur = [i \in Cursors |-> NoCursor]
            /\ NoOps

\* The Page that descend makes of the bytes.
PageOfData ==
    RawPage(data, rows[3],
            IF get_page_type(rows[1]) = "Interior" THEN PAGE_INTERIOR_HEADER_LEN
            ELSE PAGE_LEAF_HEADER_LEN)

\* A client calls cell(index).
CallCell(index) ==
    /\ \E bytes \in {RawPage_cell(PageOfData, index)} :
          got' = [op |-> "cell", key |-> <<index>>, st |-> bytes.st,
                  cells |-> IF bytes.st = "ok" THEN <<bytes.bytes>> ELSE <<>>]
    /\ UNCHANGED <<file, root, kind, rows, pos, cur, out, calls, pc, data, res>>

\* next() on the PageIter of the page, whose idx is calls[1]; out[1] keeps
\* what it asked cell() for.
CallPageIterNext ==
    /\ pc = "idle"
    /\ \E n \in {RawPageIter_next(kind, PageOfData, calls[1])} :
          /\ out' = [out EXCEPT ![1] =
                        IF n.some THEN Append(@, [index |-> n.index, cell |-> n.cell]) ELSE @]
          /\ calls' = [calls EXCEPT ![1] = n.idx]
          /\ pc' = IF n.some /\ n.cell.st = "ok" THEN "idle" ELSE "done"
    /\ UNCHANGED <<file, root, kind, rows, pos, cur, got, data, res>>

NextPage ==
    \/ \E index \in 0..(Len(rows[1].cells) + MaxBeyond) : CallCell(index)
    \/ CallPageIterNext

SpecPage == InitPage /\ [][NextPage]_vars

(***************************************************************************)
(* SpecScans: a client runs full scans one after the other, each with a    *)
(* cursor of its own made by iter() and run to its end by collect().       *)
(***************************************************************************)
\* Scan i has returned r.
Scanned(i, r) ==
    /\ out' = [out EXCEPT ![i] = r.cells]
    /\ calls' = [calls EXCEPT ![i] = 1]
    /\ got' = [op |-> "iter", key |-> <<>>, st |-> r.st, cells |-> r.cells]
    /\ pos' = r.pos

CallIter(i) ==
    /\ calls[i] = 0
    /\ got.st = "ok"
    /\ \E r \in {collect_range(file, kind, root, MkRange("All", <<>>), pos)} : Scanned(i, r)
    /\ UNCHANGED <<file, root, kind, rows, cur, pc, data, res>>

NextScans == \E i \in Cursors : CallIter(i)

SpecScans == InitOps /\ [][NextScans]_vars

(***************************************************************************)
(* SpecTwo: two cursors over the same B-tree, made one after the other     *)
(* from one Pager, and a client that calls next() on either of them in any *)
(* order.                                                                  *)
(***************************************************************************)
InitTwoCursors(k, keys, f, r1, r2) ==
    LET Second(m1, m2) ==
            /\ pos = m2.pos
            /\ cur = [i \in Cursors |-> IF i = 1 THEN m1.c ELSE m2.c]
        First(m1) == \E m2 \in {iter_range(f, k, RootOf(f), r2, m1.pos)} : Second(m1, m2)
    IN  /\ InitFile(k, keys, f)
        /\ \E m1 \in {iter_range(f, k, RootOf(f), r1, 0)} : First(m1)
        /\ NoOps

\* The ranges of the second cursor: a full scan, or the range of the first.
SecondRanges(r1) == {MkRange("All", r1.key), r1}

\* The B-trees of SpecTwo hold the entries 1..MaxKeyTwo: enough for three
\* levels.
MaxKeyTwo == 4

InitTwo ==
    \E k \in {"table", "index"}, keys \in SUBSET (1..MaxKeyTwo) :
        \E f \in TreesOver(k, keys) :
            \E r1 \in (IF k = "table" THEN TableRanges ELSE IndexRanges) :
                \E r2 \in SecondRanges(r1) :
                    InitTwoCursors(k, keys, f, r1, r2)

NextTwo == \E i \in Cursors : CallNext(i)

SpecTwo == InitTwo /\ [][NextTwo]_vars

(***************************************************************************)
(* SpecIter: the loop of BTreeIter::next, one turn at a time.  The client  *)
(* calls next() on cursor 1 again and again; pc = "next" while a call is   *)
(* inside the loop.  The thread that runs the call keeps running, and the  *)
(* client keeps calling: both steps are weakly fair.                       *)
(***************************************************************************)
\* The probes that IndexRange::compare can compare with the records of the
\* index: no more fields than they have.
ComparableRanges == {r \in IndexRanges : Len(r.key) <= 2}

InitIter ==
    \/ InitTable
    \/ \E keys \in SUBSET Entries : \E f \in TreesOver("index", keys) :
           \E range \in ComparableRanges : InitCursor("index", keys, f, range)

EnterNext ==
    /\ pc = "idle"
    /\ cur[1].st = "ok"
    /\ calls[1] < MaxCalls
    /\ pc' = "next"
    /\ UNCHANGED <<file, root, kind, rows, pos, cur, out, calls, got, data, res>>

\* The turn t of the loop has ended: the call goes on, or it returns.
Turned(t) ==
    /\ Stepped(1, t)
    /\ pc' = IF t.ret = "continue" THEN "next" ELSE "idle"

Iterate ==
    /\ pc = "next"
    /\ \E t \in {LoopTurn(file, kind, [c |-> cur[1], pos |-> pos])} : Turned(t)
    /\ UNCHANGED <<file, root, kind, rows, got, data, res>>

NextIter == EnterNext \/ Iterate

SpecIter == InitIter /\ [][NextIter]_vars /\ WF_vars(EnterNext) /\ WF_vars(Iterate)

(***************************************************************************)
(* Properties of read_varint (SpecVarint).                                 *)
(***************************************************************************)
\* The w bits of n, most significant first.
Bits(n, w) == [i \in 1..w |-> (n \div (2 ^ (w - i))) % 2]

U64Bits(v) == Bits(v[1], 16) \o Bits(v[2], 16) \o Bits(v[3], 16) \o Bits(v[4], 16)

\* The number of bytes of the varint at the start of d: up to the first of the
\* first 8 bytes whose high bit is clear, or 9; 0 if d ends before that.
VarintLen(d) ==
    IF \E i \in 1..Len(d) : i <= 8 /\ d[i] < 128
    THEN CHOOSE i \in 1..Len(d) : d[i] < 128 /\ \A j \in 1..(i - 1) : d[j] >= 128
    ELSE IF Len(d) >= 9 THEN 9 ELSE 0

\* The low 7 bits of each of the first 8 bytes and all 8 bits of a ninth,
\* one after the other.
RECURSIVE VarintBits(_, _, _)
VarintBits(d, i, n) ==
    IF i > n THEN <<>>
    ELSE (IF i = 9 THEN Bits(d[i], 8) ELSE Bits(d[i] % 128, 7)) \o VarintBits(d, i + 1, n)

\* A bit string of at most 64 bits as a 64-bit number.
Pad64(bits) ==
    [i \in 1..64 |-> IF i <= 64 - Len(bits) THEN 0 ELSE bits[i - (64 - Len(bits))]]

\* C10: on a buffer that starts with a complete varint, read_varint returns
\* the 64-bit number whose bits are the low 7 bits of each byte of the varint
\* (all 8 bits of a ninth byte) in order, and its reader has consumed the
\* bytes of the varint, between 1 and 9, and no more.
C10_VarintValue ==
    (res.done /\ VarintLen(data) > 0) =>
        /\ res.ok
        /\ res.pos = VarintLen(data)
        /\ res.pos \in 1..9
        /\ U64Bits(res.value) = Pad64(VarintBits(data, 1, VarintLen(data)))

\* Nine bytes 0xff followed by another byte have been decoded to 2^64 - 1.
C10_Witness ==
    /\ res.done
    /\ Len(data) = 10
    /\ \A i \in 1..9 : data[i] = 255
    /\ res.value = <<65535, 65535, 65535, 65535>>
    /\ res.pos = 9

\* C11: on a buffer that ends before its varint is complete (it is empty, or
\* it has fewer than 9 bytes and each has its high bit set), read_varint fails
\* with InvalidVarint and returns no value.
C11_VarintTruncated ==
    (res.done /\ VarintLen(data) = 0) =>
        /\ ~res.ok
        /\ res.err = <<"InvalidVarint">>
        /\ res.value = Zero64

\* The single byte 0x81 has been refused.
C11_Witness ==
    /\ res.done
    /\ data = <<129>>
    /\ ~res.ok

(***************************************************************************)
(* Properties of record decoding (SpecRecord).                             *)
(***************************************************************************)
\* The kind the file format gives to serial type n.
KindOf(n) ==
    IF n = 0 THEN "Null"
    ELSE IF n \in 1..6 \/ n \in {8, 9} THEN "Integer"
    ELSE IF n = 7 THEN "Float"
    ELSE IF n % 2 = 0 THEN "Blob"
    ELSE "Text"

\* The eight bytes of a 64-bit value, most significant first.
U64Bytes(v) == [i \in 1..8 |-> IF i % 2 = 1 THEN v[(i + 1) \div 2] \div 256
                                ELSE v[i \div 2] % 256]

LowBytes(v, n) == SubSeq(U64Bytes(v), 9 - n, 8)

\* The field f holds what the encoding e wrote: the kind of its serial
\* type and, in as many bytes as that serial type has, its payload.
FieldAsEncoded(f, e) ==
    /\ f.ty = KindOf(e.serial)
    /\ CASE e.serial = 0 -> TRUE
         [] e.serial = 8 -> f.int = U64(0)
         [] e.serial = 9 -> f.int = U64(1)
         [] e.serial \in 1..6 -> LowBytes(f.int, Len(e.payload)) = e.payload
         [] OTHER -> f.bytes = e.payload

Reserved(encs) == \E i \in 1..Len(encs) : encs[i].serial \in {10, 11}

\* C12: Record::from_bytes maps every serial type to a field kind and a
\* payload size: 0 Null, 1..6 Integer of 1, 2, 3, 4, 6, 8 bytes, 7 Float of
\* 8 bytes, 8 and 9 the integers 0 and 1, 10 and 11 a parse error, even
\* N >= 12 a Blob of (N-12)/2 bytes, odd N >= 13 a Text of (N-13)/2 bytes,
\* N = 12 and N = 13 included; field i of the decoded record holds what
\* was encoded as field i.
C12_SerialTypes ==
    got.op = "from_bytes" =>
        IF Reserved(rows) THEN got.st = "err"
        ELSE /\ got.st = "ok"
             /\ Len(got.cells) = Len(rows)
             /\ \A i \in 1..Len(rows) : FieldAsEncoded(got.cells[i], rows[i])

\* The two's-complement value of a big-endian payload, extended to 64 bits.
SignExtended(payload) ==
    LET pad == IF payload[1] >= 128 THEN 255 ELSE 0
        b == [i \in 1..(8 - Len(payload)) |-> pad] \o payload
    IN  [i \in 1..4 |-> b[2 * i - 1] * 256 + b[2 * i]]

\* C13: an integer of serial type 1..6 is the two's-complement value of
\* its payload, sign-extended to 64 bits (one byte 0xFF is -1, not 255).
C13_SignExtension ==
    (got.op = "from_bytes" /\ got.st = "ok") =>
        \A i \in 1..Len(rows) :
            rows[i].serial \in 1..6 => got.cells[i].int = SignExtended(rows[i].payload)

\* The kind an accessor returns.
AccessorKind(acc) ==
    CASE acc = "as_null"    -> "Null"
      [] acc = "as_integer" -> "Integer"
      [] acc = "as_float"   -> "Float"
      [] acc = "as_blob"    -> "Blob"
      [] acc = "as_text"    -> "Text"

\* C14: an accessor succeeds exactly when the kind of the stored field is
\* the kind of the accessor (serial types 8 and 9 are integers), and
\* otherwise returns UnexpectedType(expected, actual).
C14_Accessors ==
    res.op \in Accessors =>
        LET stored == KindOf(rows[res.pos].serial)
        IN  /\ res.ok <=> stored = AccessorKind(res.op)
            /\ ~res.ok => res.err = <<"UnexpectedType", AccessorKind(res.op), stored>>

(***************************************************************************)
(* Properties of the header of the file (SpecHeader).                      *)
(***************************************************************************)
\* The input does not begin with the 16 bytes "SQLite format 3\0".
WrongMagic(bytes) == Len(bytes) < 16 \/ SubSeq(bytes, 1, 16) # Magic

Refused == ~res.ok /\ Head(res.err) = "InvalidDbHeader"

\* C15: DbHeader::parse returns InvalidDbHeader for every input that does
\* not begin with the magic string, inputs shorter than 16 bytes included,
\* and does not abort on them; Pager::open returns InvalidDbHeader for a
\* file shorter than 100 bytes.
C15_HeaderMagic ==
    /\ (res.op = "parse" /\ WrongMagic(data)) => Refused
    /\ (res.op = "open" /\ Len(data) < 100) => Refused

\* The powers of two from 512 to 32768.
PowersOfTwo == {2 ^ k : k \in 9..15}

\* C16: of the 16-bit values n at offset 16 of a header, DbHeader::parse
\* accepts 1, with page size 65536, and the powers of two from 512 to
\* 32768, with page size n, and returns InvalidDbHeader for every other n,
\* 0 included; an accepted page size is a power of two in [512, 65536].
C16_PageSize ==
    (res.op \in {"parse", "open"} /\ Len(data) >= HeaderLen /\ ~WrongMagic(data)) =>
        LET n == data[17] * 256 + data[18]
        IN  /\ n = 1 => res.ok /\ res.value[1] = 65536
            /\ n \in PowersOfTwo => res.ok /\ res.value[1] = n
            /\ n \notin PowersOfTwo \cup {1} => Refused
            /\ res.ok => res.value[1] \in PowersOfTwo \cup {65536}

\* A header of 100 bytes whose page-size field is 1 has been accepted.
C16_Witness ==
    /\ res.op = "parse"
    /\ Len(data) = HeaderLen
    /\ ~WrongMagic(data)
    /\ data[17] * 256 + data[18] = 1
    /\ res.ok
    /\ res.value[1] = 65536

(***************************************************************************)
(* Properties of the schema (SpecSchema).                                  *)
(***************************************************************************)
\* The rows of sqlite_master of type "table" that have the name asked for.
Named(name) == {i \in 1..Len(rows) : rows[i].type = TypeTable /\ rows[i].name = name}

\* C17: Schema::table(name) returns the first row of sqlite_master of
\* type "table" whose name is name when there is one, and fails with
\* TableDoesNotExist(name) when there is none, whatever the rows of the
\* other tables are.
C17_TableByName ==
    got.op = "table" =>
        IF Named(got.key) # {}
        THEN /\ res.ok
             /\ res.value.name = got.key
             /\ res.value.page_num = rows[CHOOSE i \in Named(got.key) :
                                            \A j \in Named(got.key) : i <= j].rootpage
        ELSE /\ ~res.ok
             /\ res.err = <<"TableDoesNotExist", got.key>>

(***************************************************************************)
(* Properties of select (SpecSelect).                                      *)
(***************************************************************************)
\* The columns the CREATE TABLE statement of the table declares.
Declared == parse_query(data).fields

PositionOf(name) == CHOOSE i \in 1..Len(Declared) : Declared[i].name = name

\* The declared primary-key columns.
PrimaryKeys == {i \in 1..Len(Declared) : Declared[i].primary_key}

\* The table has exactly one primary-key column, an integer, named name.
IsRowIdColumn(name) ==
    /\ Cardinality(PrimaryKeys) = 1
    /\ \A i \in PrimaryKeys : Declared[i].sql_type = "Int" /\ Declared[i].name = name

\* The field a stored encoding decodes to.
StoredValue(e) ==
    IF e.serial = 0 THEN MkField("Null", Zero64, <<>>)
    ELSE IF e.serial = 1 THEN MkField("Integer", U64(e.payload[1]), <<>>)
    ELSE MkField("Text", Zero64, e.payload)

\* C18: when the table declares exactly one primary-key column and it is
\* an integer, select gives that column the row-id of the row, not the
\* Null of the record, and every other column the record field at the
\* column's position in the column list; with no such primary key every
\* column is the record field at its position.
C18_RowIdSubstitution ==
    (got.op = "select" /\ \A k \in 1..Len(got.key) : got.key[k] \in {"a", "b"}) =>
        /\ got.st = "ok"
        /\ Len(got.cells) = Len(rows)
        /\ \A i \in 1..Len(rows) : \A k \in 1..Len(got.key) :
              got.cells[i][got.key[k]] =
                  IF IsRowIdColumn(got.key[k])
                  THEN MkField("Integer", U64(rows[i].row_id), <<>>)
                  ELSE StoredValue(rows[i].fields[PositionOf(got.key[k])])

\* Both columns of the three rows of table q, whose second column is its
\* INTEGER PRIMARY KEY, have been selected from a file of three pages; the
\* third row came back with its row-id as the primary key.
C18_Witness ==
    /\ got.op = "select"
    /\ got.key = <<"a", "b">>
    /\ data = SqlQ
    /\ 4 \in DOMAIN file
    /\ got.st = "ok"
    /\ Len(got.cells) = 3
    /\ got.cells[3]["a"] = MkField("Integer", U64(3), <<>>)
    /\ rows[3].fields[2].serial = 0

(***************************************************************************)
(* Properties of the operations on a damaged file (SpecDamaged).           *)
(***************************************************************************)
\* C19: when a cell or its record fails to decode while a cursor steps
\* (a truncated varint, a reserved serial type, a field beyond the
\* buffer), the operation ends and its caller gets an error value: the
\* process is not aborted; a full scan of a tree with such a cell in a
\* leaf returns the error.
C19_DecodeErrors ==
    (got.op # "none" /\ data # <<>>) =>
        /\ got.st # "panic"
        /\ got.op \in {"len", "dump"} => got.st = "err"

\* The pages with a type byte that is none of the four page kinds.
UnknownPages == {n \in DOMAIN file : file[n].ty \notin KnownTypes}

\* C20: a descent into a page whose type byte is not a recognized leaf or
\* interior type fails with a parse error; the page is not taken for a
\* leaf or an interior and no cell of it is decoded.  The root is such a
\* page for every operation, and a full scan descends into every page.
C20_UnknownPageType ==
    (/\ got.op # "none"
     /\ UnknownPages # {}
     /\ root \in UnknownPages \/ got.op \in {"len", "dump"}) =>
        /\ got.st = "err"
        /\ got.cells = <<>>

(***************************************************************************)
(* Properties of get_page (SpecPager).                                     *)
(***************************************************************************)
\* The page numbers of the database: 1..num_pages of the header, as far as
\* the file holds them.
InDatabase(number) ==
    /\ 1 <= number
    /\ number <= Pager_num_pages(data)
    /\ number <= FilePages(file)

\* C21: page reads are history-independent.  Whatever pages were read
\* before, and by whichever cursor, get_page(n) with n in 1..num_pages
\* returns the page at (n - 1) * page_size of the file, and every buffer
\* returned earlier still holds the page it was returned with.
C21_PageReads ==
    /\ (got.op = "get_page" /\ InDatabase(got.key[1]))
          => got.st = "ok" /\ got.cells = <<PageAt(file, got.key[1])>>
    /\ \A i \in Cursors : \A j \in 1..Len(out[i]) :
          InDatabase(out[i][j].number) => out[i][j].page = PageAt(file, out[i][j].number)

\* Cursor 1 has read an interior page of the database, cursor 2 another
\* page, and cursor 1 the interior page again, with the file position left
\* on another page by the read before.
C21_Witness ==
    /\ Len(out[1]) = 2 /\ Len(out[2]) = 1
    /\ out[1][1].number = out[1][2].number
    /\ out[2][1].number # out[1][1].number
    /\ InDatabase(out[1][1].number) /\ InDatabase(out[2][1].number)
    /\ get_page_type(out[1][1].page) = "Interior"
    /\ out[1][1].page # ZeroPage
    /\ pos = out[1][1].number

\* C28: get_page returns a buffer only for the page numbers 1..num_pages of
\* the header: for 0 and for every number above num_pages it returns no
\* page, whatever the length of the file.
C28_PageNumberRange ==
    (got.op = "get_page" /\ (got.key[1] = 0 \/ got.key[1] > Pager_num_pages(data)))
        => got.st # "ok"

(***************************************************************************)
(* Properties of TableInteriorCell::from_bytes (SpecCell).                 *)
(***************************************************************************)
\* C25: a table-interior cell decodes to the left child of its first 4
\* bytes (big-endian) and to the key of the varint that starts at byte 4,
\* whatever the 4 bytes of the left child are.
C25_TableInteriorCell ==
    got.op = "from_bytes" =>
        /\ got.st = "ok"
        /\ got.cells[1].left = rows[1]
        /\ got.cells[1].key = U64(rows[2])

(***************************************************************************)
(* Properties of IndexRange::compare (SpecPrefix).                         *)
(***************************************************************************)
\* The lexicographic order of two sequences of numbers: the 4 limbs of an
\* integer, or the bytes of a text.
SeqLess(a, b) ==
    \E i \in 1..Len(b) :
        /\ i - 1 <= Len(a)
        /\ \A j \in 1..(i - 1) : a[j] = b[j]
        /\ (i > Len(a) \/ a[i] < b[i])

\* The field a is smaller than the field b of its type.
Smaller(a, b) ==
    IF a.ty = "Integer" THEN SeqLess(a.int, b.int) ELSE SeqLess(a.bytes, b.bytes)

\* The positions of the probe at which the stored key differs from it.
Differing(probe, stored) == {i \in 1..Len(probe) : stored[i] # probe[i]}

\* What the prefix predicate is to return for a probe that is not longer
\* than the stored key.
PrefixOf(probe, stored) ==
    IF Differing(probe, stored) = {} THEN "InRange"
    ELSE LET i == CHOOSE k \in Differing(probe, stored) :
                      \A j \in Differing(probe, stored) : k <= j
         IN  IF Smaller(stored[i], probe[i]) THEN "Less" ELSE "Greater"

\* The fields that are compared, up to the first that differs, have the
\* type of the field of the probe, and the texts among them are UTF-8.
Comparable(probe, stored) ==
    \A i \in 1..Len(probe) :
        (\A j \in 1..(i - 1) : stored[j] = probe[j])
            => stored[i].ty = probe[i].ty /\ as_text(stored[i]).err # <<"Utf8">>

C27_CellBounds ==
    /\ got.op = "cell" =>
          IF got.key[1] < Len(rows[1].cells)
          THEN /\ got.st = "ok"
               /\ got.cells = <<SubSeq(data, rows[2][got.key[1] + 1] + 1, Len(data))>>
          ELSE got.st = "panic" /\ got.cells = <<>>
    /\ \A j \in 1..Len(out[1]) :
          /\ out[1][j].index \in 0..(Len(rows[1].cells) - 1)
          /\ out[1][j].cell = Cell_from_bytes(kind, get_page_type(rows[1]),
                                               rows[1].cells[out[1][j].index + 1])

\* cell(len()) was asked of a page with cells after its scan has ended.
C27_Witness ==
    /\ got.op = "cell"
    /\ got.key[1] = Len(rows[1].cells)
    /\ Len(rows[1].cells) >= 2
    /\ pc = "done"
    /\ Len(out[1]) = Len(rows[1].cells)

(***************************************************************************)
(* Properties of the cursor over a table (Spec) and of the operations      *)
(* that run a traversal to its end (SpecOps).  rows is what the B-tree     *)
(* holds: its entries in key order.                                        *)
(***************************************************************************)
\* The leaf cell of the row of entry e, and the record of entry e in an index.
RowCell(e) == MkCell(U64(RowId(e)), 0, <<IntegerField(e)>>)

IndexRecord(e) == ProbeRecord(IndexVals(e))

RowCells(es) == [i \in 1..Len(es) |-> RowCell(es[i])]

IndexRecords(es) == [i \in 1..Len(es) |-> IndexRecord(es[i])]

IsPrefix(a, b) == Len(a) <= Len(b) /\ a = SubSeq(b, 1, Len(a))

\* Cursor i has returned None.
Exhausted(i) == calls[i] >= 1

\* The entries of es with a row-id of at least k.
RowsFrom(es, k) == LET AtLeast(e) == RowId(e) >= k IN SelectSeq(es, AtLeast)

\* The entries of es whose record starts with the fields of p.
RowsWithPrefix(es, p) ==
    LET Starts(e) == SubSeq(IndexRecord(e), 1, Len(p)) = p IN SelectSeq(es, Starts)

\* The B-tree has three levels: the right-most child of its root is interior.
ThreeLevels ==
    /\ get_page_type(PageAt(file, root)) = "Interior"
    /\ get_page_type(PageAt(file, PageAt(file, root).right)) = "Interior"

TwoLevels == get_page_type(PageAt(file, root)) = "Interior"

\* The B-tree is in a file of more than 2^24 pages.
HighPages == root > 16777216

\* C1: a cursor made by iter() over a table yields the leaf cells of the
\* table in ascending key order, each once: what it has yielded is always
\* the first cells of the table, without a failure, and once it has returned
\* None it has yielded all of them.
C1_FullScan ==
    (kind = "table" /\ cur[1].range.tag = "All") =>
        /\ cur[1].st = "ok"
        /\ IsPrefix(out[1], RowCells(rows))
        /\ \A i, j \in 1..Len(out[1]) : i < j => CmpU64(out[1][i].key, out[1][j].key) = "Less"
        /\ Exhausted(1) => out[1] = RowCells(rows)

\* The full scan of a table of MaxKey rows in a B-tree of three levels has
\* ended.
C1_Witness ==
    /\ kind = "table"
    /\ cur[1].range.tag = "All"
    /\ ThreeLevels
    /\ Exhausted(1)
    /\ Len(rows) = MaxKey
    /\ Len(out[1]) = MaxKey

\* C2: get(k) for a row-id k that the table holds returns the leaf cell of k.
C2_GetHit ==
    (got.op = "get" /\ \E e \in Entries : e \in Range(rows) /\ got.key = U64(RowId(e))) =>
        /\ got.st = "ok"
        /\ Len(got.cells) = 1
        /\ got.cells[1].key = got.key

\* C3: get(k) never fails its assertion and returns at most one cell, and
\* returns none for a row-id k that the table does not hold.
C3_GetMiss ==
    (got.op = "get") =>
        /\ got.st = "ok"
        /\ Len(got.cells) <= 1
        /\ (\A e \in Range(rows) : got.key # U64(RowId(e))) => got.cells = <<>>

\* get(k) has returned none for a k between the row-ids of a table of more
\* than one level.
C3_Witness ==
    /\ got.op = "get"
    /\ got.st = "ok"
    /\ got.cells = <<>>
    /\ TwoLevels
    /\ \A e \in Range(rows) : got.key # U64(RowId(e))
    /\ \E a, b \in Range(rows) :
           /\ CmpU64(U64(RowId(a)), got.key) = "Less"
           /\ CmpU64(got.key, U64(RowId(b))) = "Less"

\* C4: a cursor made by iter_range(GtEq(k)) yields the leaf cells with a key
\* of at least k, in ascending key order, each once and no other: what it
\* has yielded is always the first of those cells, and once it has returned
\* None it has yielded all of them.
C4_GtEqScan ==
    (kind = "table" /\ cur[1].range.tag = "GtEq") =>
        /\ cur[1].st = "ok"
        /\ IsPrefix(out[1], RowCells(RowsFrom(rows, Sat(cur[1].range.key))))
        /\ Exhausted(1) => out[1] = RowCells(RowsFrom(rows, Sat(cur[1].range.key)))

\* The scan from the key 3 of a table of MaxKey rows in a B-tree of three
\* levels, in a file of more than 2^24 pages, has ended: it left rows out
\* and it yielded rows.
C4_Witness ==
    /\ kind = "table"
    /\ HighPages
    /\ cur[1].range = MkRange("GtEq", U64(3))
    /\ ThreeLevels
    /\ Exhausted(1)
    /\ Len(rows) = MaxKey
    /\ Len(out[1]) = MaxKey - 2

\* C5: Index::scan(p), for a probe p of no more fields than the records of
\* the index, returns the records of the index that start with the fields of
\* p, in index order.
C5_IndexScan ==
    (got.op = "scan" /\ Len(got.key) <= 2) =>
        /\ got.st = "ok"
        /\ got.cells = IndexRecords(RowsWithPrefix(rows, got.key))

\* C6: Index::dump() returns all the records of the index, in index order.
C6_IndexDump ==
    (got.op = "dump") =>
        /\ got.st = "ok"
        /\ got.cells = IndexRecords(rows)

(***************************************************************************)
(* Properties of scans that share a Pager (SpecScans, SpecTwo) and of the  *)
(* loop of next() (SpecIter).                                              *)
(***************************************************************************)
\* C7: two full scans of a B-tree, run one after the other from one Pager,
\* return the same cells: no scan fails, and when both have run their
\* results are equal.
C7_ScanTwice ==
    /\ got.st = "ok"
    /\ (calls[1] = 1 /\ calls[2] = 1) => out[1] = out[2]

\* Both scans of a table of MaxKey rows in a B-tree of three levels have run,
\* and they have moved the position of the file.
C7_Witness ==
    /\ calls[1] = 1
    /\ calls[2] = 1
    /\ kind = "table"
    /\ ThreeLevels
    /\ Len(out[2]) = MaxKey
    /\ pos > 0

\* What cursor i yields when it is the only cursor of a Pager just opened.
Alone(i) == collect_range(file, kind, root, cur[i].range, 0)

AsAlone(i, alone) ==
    /\ IsPrefix(out[i], alone.cells)
    /\ cur[i].st = "panic" => alone.st = "panic" /\ out[i] = alone.cells
    /\ Exhausted(i) => alone.st = "ok" /\ out[i] = alone.cells

\* C8: of two cursors that share a Pager and are stepped in any order, each
\* yields what it would yield alone, and a step of one leaves the stack, the
\* leaf and the last comparison of the other as they were.
C8_Independent ==
    /\ [](\A i \in Cursors : \E alone \in {Alone(i)} : AsAlone(i, alone))
    /\ [][\A i \in Cursors :
            (out'[i] # out[i] \/ calls'[i] # calls[i]) =>
                \A j \in Cursors \ {i} : cur'[j] = cur[j]]_vars

\* Two cursors over a table in a B-tree of three levels, a full scan and a
\* scan from a key, have both ended after steps of the one between steps of
\* the other left them on different pages.
C8_Witness ==
    /\ kind = "table"
    /\ ThreeLevels
    /\ cur[1].range.tag = "GtEq"
    /\ cur[2].range.tag = "All"
    /\ out[1] # <<>>
    /\ Len(out[2]) > Len(out[1])
    /\ Exhausted(1)
    /\ Exhausted(2)

\* C9: a cursor that is stepped again and again returns None at some point,
\* and every call of next() leaves its loop.
C9_Terminates ==
    /\ <>Exhausted(1)
    /\ (pc = "next") ~> (pc = "idle")

\* A prefix scan of an index of more than one level has yielded a record and
\* has then returned None.
C9_Witness ==
    /\ pc = "idle"
    /\ kind = "index"
    /\ cur[1].range.tag = "Index"
    /\ TwoLevels
    /\ out[1] # <<>>
    /\ Exhausted(1)


(***************************************************************************)
(* Properties of the turns of next() (SpecIter).                           *)
(***************************************************************************)
\* The turn of cursor 1 that comes next reads a cell of its current leaf.
LeafTurn ==
    /\ pc = "next"
    /\ cur[1].leaf.some
    /\ cur[1].leaf.idx < Page_len(cur[1].leaf.page)

\* The cell that this turn reads, and what the predicate returns for its key.
LeafCellAhead == Cell_from_bytes(kind, "Leaf", cur[1].leaf.page.cells[cur[1].leaf.idx + 1])

LeafComparison == Range_compare(cur[1].range, LeafCellAhead.key)

Emitted(cell) == out' = [out EXCEPT ![1] = Append(@, cell)]

LeafKept == cur'[1].leaf = [cur[1].leaf EXCEPT !.idx = @ + 1]

LeafDropped == ~cur'[1].leaf.some

\* C22: the leaf step.  When next() reads a leaf cell, on UpperBoundary it
\* emits the cell and drops the leaf, on Greater it drops the leaf and emits
\* nothing, on Less it skips the cell and keeps the leaf, and on InRange it
\* emits the cell and keeps the leaf.
C22_LeafStep ==
    [][LeafTurn =>
         CASE LeafComparison = "UpperBoundary" -> Emitted(LeafCellAhead) /\ LeafDropped
           [] LeafComparison = "Greater"       -> out' = out /\ LeafDropped
           [] LeafComparison = "Less"          -> out' = out /\ LeafKept
           [] LeafComparison = "InRange"       -> Emitted(LeafCellAhead) /\ LeafKept
           [] OTHER                            -> TRUE]_vars


\* The decoded leaf cells of the subtree of f whose root is the page number.
RECURSIVE LeafCellsUnder(_, _, _)
LeafCellsUnder(f, k, number) ==
    LET page == PageAt(f, number)
        Left(i) == Cell_from_bytes(k, "Interior", page.cells[i]).left
    IN  IF get_page_type(page) = "Leaf"
        THEN {Cell_from_bytes(k, "Leaf", page.cells[i]) : i \in 1..Page_len(page)}
        ELSE UNION {LeafCellsUnder(f, k, Left(i)) : i \in 1..Page_len(page)}
                 \cup LeafCellsUnder(f, k, page.right)

\* The subtree holds a leaf cell that the range of cursor 1 selects.
InRangeUnder(number) ==
    \E cell \in LeafCellsUnder(file, kind, number) :
        Range_compare(cur[1].range, cell.key) \in {"InRange", "UpperBoundary"}

\* The turn of cursor 1 that comes next pops an interior scan.
InteriorTurn ==
    /\ pc = "next"
    /\ ~cur[1].leaf.some
    /\ cur[1].interiors # <<>>
    /\ Last(cur[1].interiors).some

InteriorAhead == Last(cur[1].interiors)

InteriorExhausted == InteriorAhead.idx = Page_len(InteriorAhead.page)

InteriorCellAhead ==
    Cell_from_bytes(kind, "Interior", InteriorAhead.page.cells[InteriorAhead.idx + 1])

\* This turn skips the left subtree of the cell it reads.
SkipsLeft ==
    /\ InteriorTurn /\ ~InteriorExhausted
    /\ Range_compare(cur[1].range, InteriorCellAhead.key) = "Greater"

\* This turn skips the right child of the interior it has exhausted.
SkipsRight ==
    /\ InteriorTurn /\ InteriorExhausted
    /\ cur[1].last_comparison \in {"UpperBoundary", "Greater"}

\* C23: pruning is sound.  A left subtree that is skipped because its
\* interior cell compared Greater, and a right child that is skipped because
\* the last comparison was UpperBoundary or Greater, hold no leaf cell that
\* the range selects (for One(k): no leaf cell with the key k).
C23_Pruning ==
    /\ SkipsLeft => ~InRangeUnder(InteriorCellAhead.left)
    /\ SkipsRight => ~InRangeUnder(PageIter_right(InteriorAhead))


\* The stack of cursor 1 without its top entry.
PoppedStack == SubSeq(cur[1].interiors, 1, Len(cur[1].interiors) - 1)

\* Cursor 1 has read the page and descended into it, over the stack below.
DescendedInto(number, below) ==
    /\ pos' = number
    /\ IF get_page_type(PageAt(file, number)) = "Leaf"
       THEN /\ cur'[1].interiors = below
            /\ cur'[1].leaf = Page_iter(PageAt(file, number))
       ELSE /\ cur'[1].interiors = Append(below, Page_iter(PageAt(file, number)))
            /\ ~cur'[1].leaf.some

\* C24: the right-child rule.  When the cell scan of an interior page is
\* exhausted, the cursor pushes one sentinel and descends into the right
\* child exactly when the last comparison is Less or InRange; when it is
\* UpperBoundary or Greater no page is read.  Either way the exhausted scan
\* is off the stack.
C24_RightChild ==
    [][(InteriorTurn /\ InteriorExhausted) =>
         IF cur[1].last_comparison \in {"Less", "InRange"}
         THEN DescendedInto(PageIter_right(InteriorAhead), Append(PoppedStack, NoIter))
         ELSE /\ cur'[1].interiors = PoppedStack
              /\ ~cur'[1].leaf.some
              /\ pos' = pos]_vars

\* The right child of an exhausted interior was descended: its leaf is the
\* current leaf, the sentinel is on top of the stack, and the comparison
\* that allowed the descent is still the last one.
C24_Witness ==
    /\ pc = "next"
    /\ cur[1].leaf.some /\ cur[1].leaf.idx = 0
    /\ cur[1].interiors # <<>> /\ ~Last(cur[1].interiors).some
    /\ cur[1].last_comparison \in {"Less", "InRange"}
    /\ cur[1].range.tag \in {"One", "Index"}
    /\ pos = PageAt(file, root).right


\* The pages of the subtree of f at the page number, each with its depth
\* when the page number is at depth d.
RECURSIVE PageDepths(_, _, _, _)
PageDepths(f, k, number, d) ==
    LET page == PageAt(f, number)
        Left(i) == Cell_from_bytes(k, "Interior", page.cells[i]).left
    IN  {[page |-> page, depth |-> d]} \cup
        (IF get_page_type(page) = "Leaf" THEN {}
         ELSE UNION {PageDepths(f, k, Left(i), d + 1) : i \in 1..Page_len(page)}
                  \cup PageDepths(f, k, page.right, d + 1))

\* The depth of a page of the tree (its root has depth 0).
DepthOf(page) ==
    (CHOOSE pd \in PageDepths(file, kind, root, 0) : pd.page = page).depth

\* The number of levels of the tree that are interior pages.
InteriorLevels ==
    Cardinality({pd.depth : pd \in {q \in PageDepths(file, kind, root, 0) :
                                       get_page_type(q.page) = "Interior"}})

\* C29: the stack-depth invariant.  Every entry of the stack is a sentinel
\* or the scan of an interior page, the entry at position j for depth
\* j - 1; when a leaf of depth d is the current leaf the stack has d
\* entries; and the stack is never longer than the tree has interior levels.
C29_StackDepth ==
    /\ \A j \in 1..Len(cur[1].interiors) :
          cur[1].interiors[j].some =>
              /\ get_page_type(cur[1].interiors[j].page) = "Interior"
              /\ cur[1].interiors[j].idx <= Page_len(cur[1].interiors[j].page)
              /\ DepthOf(cur[1].interiors[j].page) = j - 1
    /\ cur[1].leaf.some =>
          /\ get_page_type(cur[1].leaf.page) = "Leaf"
          /\ Len(cur[1].interiors) = DepthOf(cur[1].leaf.page)
    /\ Len(cur[1].interiors) <= InteriorLevels

\* A leaf at depth 2 is the current leaf, reached through the right child
\* of its parent: the stack is the scan of the root and a sentinel.
C29_Witness ==
    /\ cur[1].leaf.some
    /\ DepthOf(cur[1].leaf.page) = 2
    /\ Len(cur[1].interiors) = 2
    /\ cur[1].interiors[1].some
    /\ ~cur[1].interiors[2].some


(***************************************************************************)
(* Properties of the calls of next() after the scan has ended (Spec).      *)
(***************************************************************************)
\* Cursor 1 has no current leaf and an empty stack.
AtEnd(c) == ~c.leaf.some /\ c.interiors = <<>>

\* C30: exhaustion is permanent.  Once next() has returned None the cursor
\* has no current leaf and an empty stack, and every later next() returns
\* None again: it reads no page, emits no cell and leaves the cursor as it
\* is.
C30_Exhausted ==
    [][calls[1] >= 1 =>
         /\ AtEnd(cur[1])
         /\ calls'[1] = calls[1] + 1
         /\ out' = out
         /\ pos' = pos
         /\ cur' = cur]_vars

\* next() has returned None a second time, on a tree of two levels or more
\* of which it had returned rows before.
C30_Witness ==
    /\ calls[1] = 2
    /\ AtEnd(cur[1])
    /\ out[1] # <<>>
    /\ get_page_type(PageAt(file, root)) = "Interior"

=============================================================================
